---- MODULE Spec2Model ----
(***************************************************************************)
(* State-machine model of the mclsp bridge: the LSP client (subprocess,    *)
(* handshake, document synchronisation, diagnostics cache and waiters),    *)
(* the manager that selects and lazily starts clients, and the tool        *)
(* handler that drives them.                                               *)
(*                                                                         *)
(* One action is one run of JavaScript from an event-loop callback to the  *)
(* next real suspension (an awaited I/O operation, an awaited reply or a   *)
(* timer); awaits on already settled promises do not let I/O events in,    *)
(* so the code between them is part of the same action.                    *)
(***************************************************************************)
EXTENDS Integers, Sequences, FiniteSets, TLC

\* ---------------------------------------------------------------- bounds
\* Tool calls received by the bridge in one behaviour.
MaxCalls == 2
\* Length of a client's message log up to which the file watcher still acts.
MaxSent == 4
\* Number of times a file is rewritten on disk.
MaxRev == 1
\* Number of clock advances in one behaviour.
MaxTicks == 2

\* ------------------------------------------------------ program constants
DIAGNOSTICS_FRESHNESS_MS == 500
DIAGNOSTICS_TIMEOUT_MS == 10000

\* The clock advances by half a freshness window or by a whole timeout.
TickSteps == {DIAGNOSTICS_FRESHNESS_MS \div 2, DIAGNOSTICS_TIMEOUT_MS}

\* ---------------------------------------------------------- configuration
\* The configured servers, in configuration order, with their file patterns
\* ("**/*.ts", "**/*.tsx" for typescript, "**/*.rs" for rust), and the
\* relative paths tool calls and the watcher name.
Servers == <<"typescript", "rust">>
ClientNames == {Servers[k] : k \in 1..Len(Servers)}
Files == {"a.ts", "b.ts", "main.rs", "main.py"}
NoClient == "none"

\* picomatch(serverConfig.filePatterns), tabulated over Files.
Matcher(c, f) ==
    CASE c = "typescript" -> f \in {"a.ts", "b.ts"}
      [] c = "rust" -> f \in {"main.rs"}
      [] OTHER -> FALSE

RootPath == "/project"
ToAbsolutePath(f) == RootPath \o "/" \o f
FilePathToUri(p) == "file://" \o p
UriOf(f) == FilePathToUri(ToAbsolutePath(f))
Uris == {UriOf(f) : f \in Files}

\* The diagnostics lists a peer publishes.
DiagLists == {<< >>, <<"e1">>}

VARIABLES
    process,            \* LspClient.process: "null" or "set"
    child,              \* the subprocess process refers to (or referred to)
    orphans,            \* live subprocesses no client field refers to any more
    connection,         \* LspClient.connection: "null" or "open"
    running,            \* LspClient._running
    capabilities,       \* LspClient._capabilities: "null" or "caps"
    started,            \* manager: start() has been invoked on the client
    shut,               \* progress of LspClient.shutdown() per client
    bridge,             \* "serving", "shuttingDown" or "exited"; "unconfigured"
                        \* when main found no configuration
    openDocuments,      \* per client, Map uri -> [version, content]
    disk,               \* revision of each file's content on disk
    diagnosticsCache,   \* per client, Map uri -> [diagnostics, timestamp]
    diagnosticsWaiters, \* per client, Map uri -> sequence of resolvers
    lastPublish,        \* per client, Map uri -> the last publishDiagnostics received
    now,                \* Date.now()
    ticks,              \* number of clock advances so far
    calls,              \* the tool calls received so far, in order
    sent                \* per client, what the peer has been sent, in order

lifeVars == <<process, child, orphans, connection, running, capabilities, started, shut, bridge>>
docVars == <<openDocuments, disk>>
diagVars == <<diagnosticsCache, diagnosticsWaiters, lastPublish>>
timeVars == <<now, ticks>>
vars == <<lifeVars, docVars, diagVars, timeVars, calls, sent>>

\* ------------------------------------------------------------------ maps
EmptyMap == [x \in {} |-> 0]
MapHas(m, k) == k \in DOMAIN m
MapSet(m, k, v) == [x \in (DOMAIN m) \cup {k} |-> IF x = k THEN v ELSE m[x]]
MapDelete(m, k) == [x \in (DOMAIN m) \ {k} |-> m[x]]

Min(S) == CHOOSE x \in S : \A y \in S : x <= y

\* --------------------------------------------------------------- messages
Msg(type, uri, version, text, id) ==
    [type |-> type, uri |-> uri, version |-> version, text |-> text, id |-> id]
SpawnEvent == Msg("spawn", "", 0, 0, 0)
InitializeRequest == Msg("initialize", "", 0, 0, 0)
InitializedNotification == Msg("initialized", "", 0, 0, 0)
ShutdownRequest == Msg("shutdown", "", 0, 0, 0)
ExitNotification == Msg("exit", "", 0, 0, 0)
\* An exit notification handed to the connection whose write had not been
\* done when the connection was disposed.
ExitUnwritten == Msg("exit", "", 0, 0, -1)
DidOpen(uri, version, text) == Msg("didOpen", uri, version, text, 0)
DidChange(uri, version, text) == Msg("didChange", uri, version, text, 0)
DidSave(uri, text) == Msg("didSave", uri, 0, text, 0)
DidClose(uri) == Msg("didClose", uri, 0, 0, 0)
RenameRequest(uri, id) == Msg("rename", uri, 0, 0, id)
\* workspace/symbol with params { query }: the query is the one of call id.
WorkspaceSymbolRequest(id) == Msg("workspaceSymbol", "", 0, 0, id)
ReferencesRequest(uri, id) == Msg("references", uri, 0, 0, id)

Tools == {"open_file", "find_references", "diagnostics", "rename", "workspace_symbols"}

NoEntry == [present |-> FALSE, diagnostics |-> << >>, timestamp |-> 0]
Entry(diags, t) == [present |-> TRUE, diagnostics |-> diags, timestamp |-> t]

\* JSON.stringify of a string, of { error: message }, of an array of strings
\* (indented by 2) and of { file, opened: true } (indented by 2). The strings
\* of the model hold no character that needs escaping.
JsonString(str) == "\"" \o str \o "\""

JsonError(message) == "{\"error\":" \o JsonString(message) \o "}"

RECURSIVE JsonItems(_)
JsonItems(items) ==
    IF Len(items) = 1
    THEN "  " \o JsonString(items[1])
    ELSE "  " \o JsonString(items[1]) \o ",\n" \o JsonItems(Tail(items))

JsonArray(items) ==
    IF items = << >> THEN "[]" ELSE "[\n" \o JsonItems(items) \o "\n]"

JsonOpened(f) ==
    "{\n  \"file\": " \o JsonString(f) \o ",\n  \"opened\": true\n}"

\* The CallToolResult of ToolHandler.handle: one text block, and isError on
\* the catch path only. NoResponse: handle has not returned yet.
TextBlock(text) == [type |-> "text", text |-> text]
NoResponse == [settled |-> FALSE]
OkResult(text) == [content |-> <<TextBlock(text)>>]
ErrorResult(message) == [content |-> <<TextBlock(JsonError(message))>>, isError |-> TRUE]

\* JSON.stringify(result, null, 2) of what the handler of the call returns.
ResultText(call, diags) ==
    CASE call.tool = "open_file" -> JsonOpened(call.file)
      [] call.tool = "rename" -> "null"
      [] OTHER -> JsonArray(diags)

NewCall(tool, f, c) ==
    [tool |-> tool, file |-> f, client |-> c, pc |-> "new", text |-> 0,
     result |-> "pending", error |-> "", diags |-> << >>,
     cached |-> NoEntry, deadline |-> 0, via |-> "", response |-> NoResponse,
     query |-> "", fan |-> << >>,
     line |-> 1, col |-> 1, position |-> [line |-> 0, character |-> 0],
     answer |-> [null |-> TRUE, items |-> << >>]]

\* ------------------------------------------------------------ tool calls
\* A run of a tool call changes the call table, the message logs and the
\* waiter table; the segments below are functions on that part of the state.
Cur == [calls |-> calls, sent |-> sent, waiters |-> diagnosticsWaiters]

Commit(s) ==
    /\ calls' = s.calls
    /\ sent' = s.sent
    /\ diagnosticsWaiters' = s.waiters

Send(s, c, m) == [s EXCEPT !.sent[c] = Append(@, m)]

ErrNoServer == "No LSP server configured for file"
ErrNullConnection == "TypeError: connection is null"
ErrReadFile == "readFile failed"
ErrRequest == "request rejected"

\* ToolHandler.handle without its catch: the error leaves handle.
FailRethrow(s, i, message) ==
    [s EXCEPT !.calls[i].pc = "done", !.calls[i].result = "error",
              !.calls[i].error = message,
              !.calls[i].response = [thrown |-> message]]

\* ToolHandler.handle: the catch turns a thrown error into an isError result.
Fail(s, i, message) ==
    [s EXCEPT !.calls[i].pc = "done", !.calls[i].result = "error",
              !.calls[i].error = message,
              !.calls[i].response = ErrorResult(message)]

\* ToolHandler.handle: the result of dispatch is returned.
Succeed(s, i, diags, via) ==
    [s EXCEPT !.calls[i].pc = "done", !.calls[i].result = "ok",
              !.calls[i].diags = diags, !.calls[i].via = via,
              !.calls[i].response = OkResult(ResultText(s.calls[i], diags))]

\* A conversion that leaves the column 1-based.
ToPositionKeepsCol(line, col) == [line |-> line - 1, character |-> col]

\* ToolHandler.toPosition: the 1-based position of a tool input as the
\* 0-based position of the wire.
ToPosition(line, col) == [line |-> line - 1, character |-> col - 1]

\* handleFindReferences after getClientAndUri: toPosition, then
\* LspClient.findReferences: this.connection!.sendRequest(ReferencesRequest)
\* with the position of the call.
FindReferences(s, i) ==
    LET c == s.calls[i].client
        uri == UriOf(s.calls[i].file)
        t == [s EXCEPT !.calls[i].position = ToPosition(s.calls[i].line, s.calls[i].col)]
    IN  IF connection[c] = "null"
        THEN Fail(t, i, ErrNullConnection)
        ELSE [Send(t, c, ReferencesRequest(uri, i)) EXCEPT !.calls[i].pc = "awaitReply"]

\* handleRename after getClientAndUri: toPosition, then LspClient.rename:
\* this.connection!.sendRequest(RenameRequest) with the position of the call.
Rename(s, i) ==
    LET c == s.calls[i].client
        uri == UriOf(s.calls[i].file)
        t == [s EXCEPT !.calls[i].position = ToPosition(s.calls[i].line, s.calls[i].col)]
    IN  IF connection[c] = "null"
        THEN Fail(t, i, ErrNullConnection)
        ELSE [Send(t, c, RenameRequest(uri, i)) EXCEPT !.calls[i].pc = "awaitReply"]

\* The freshness test with the boundary included.
FreshInclusive(cached) ==
    cached.present /\ (now - cached.timestamp) <= DIAGNOSTICS_FRESHNESS_MS

\* The freshness test of waitForDiagnostics.
Fresh(cached) ==
    cached.present /\ (now - cached.timestamp) < DIAGNOSTICS_FRESHNESS_MS

\* The two closures of a waitForDiagnostics call: the promise's resolve and
\* the wrappedResolve that clears the timer first.
Resolve(i) == [fn |-> "resolve", call |-> i]
WrappedResolve(i) == [fn |-> "wrappedResolve", call |-> i]

\* diagnosticsWaiters.get(uri)!.push(wrappedResolve), creating the array first.
PushWaiter(m, uri, i) ==
    MapSet(m, uri, Append(IF MapHas(m, uri) THEN m[uri] ELSE << >>, WrappedResolve(i)))

\* LspClient.waitForDiagnostics up to its return: a fresh hit returns the
\* cached list, otherwise the timer is set and the waiter registered.
WaitForDiagnostics(s, i) ==
    LET c == s.calls[i].client
        uri == UriOf(s.calls[i].file)
        cached == IF MapHas(diagnosticsCache[c], uri)
                  THEN diagnosticsCache[c][uri] ELSE NoEntry
    IN  IF Fresh(cached)
        THEN Succeed(s, i, cached.diagnostics, "fresh")
        ELSE [s EXCEPT !.calls[i].pc = "waiting",
                       !.calls[i].cached = cached,
                       !.calls[i].deadline = now + DIAGNOSTICS_TIMEOUT_MS,
                       !.waiters[c] = PushWaiter(@, uri, i)]

\* ------------------------------------------------------------ extensions
\* serverConfig.command.join(" ") of the configured peers.
Command(c) ==
    CASE c = "typescript" -> "typescript-language-server --stdio"
      [] c = "rust" -> "rust-analyzer"

\* EXTENSION_REGISTRY, with the typescript extensions.
TsGoToSourceDefinition ==
    [name |-> "ts_go_to_source_definition", method |-> "_typescript.goToSourceDefinition",
     params |-> "textDocumentPosition"]
TsOrganizeImports ==
    [name |-> "ts_organize_imports", method |-> "_typescript.organizeImports",
     params |-> "textDocument"]
ExtensionRegistry ==
    <<[pattern |-> "typescript-language-server",
       extensions |-> <<TsGoToSourceDefinition, TsOrganizeImports>>]>>

\* commandStr.includes(pattern), tabulated over the commands and patterns.
Includes(commandStr, pattern) ==
    /\ commandStr = "typescript-language-server --stdio"
    /\ pattern = "typescript-language-server"

\* getExtensionsForCommand: the extensions of every registry entry whose
\* pattern the command includes.
RECURSIVE ExtensionsIn(_, _)
ExtensionsIn(registry, commandStr) ==
    IF registry = << >> THEN << >>
    ELSE (IF Includes(commandStr, registry[1].pattern) THEN registry[1].extensions ELSE << >>)
         \o ExtensionsIn(Tail(registry), commandStr)
GetExtensionsForCommand(c) == ExtensionsIn(ExtensionRegistry, Command(c))

Declares(c, toolName) ==
    \E k \in 1..Len(GetExtensionsForCommand(c)) : GetExtensionsForCommand(c)[k].name = toolName
ExtensionOf(c, toolName) ==
    LET exts == GetExtensionsForCommand(c)
    IN  exts[CHOOSE k \in 1..Len(exts) : exts[k].name = toolName]

\* LspManager.getClientForExtensionTool: the first Ready client that declares
\* the tool, or NoClient.
GetClientForExtensionTool(toolName) ==
    LET ks == {k \in 1..Len(Servers) : running[Servers[k]] /\ Declares(Servers[k], toolName)}
    IN  IF ks = {} THEN NoClient ELSE Servers[Min(ks)]

IsExtensionTool(toolName) == \E c \in ClientNames : Declares(c, toolName)
MethodOf(toolName) ==
    ExtensionOf(CHOOSE c \in ClientNames : Declares(c, toolName), toolName).method

CustomRequest(method, uri, id) == Msg(method, uri, 0, 0, id)

\* handleExtensionRequest after ensureOpen: params { textDocument: { uri } },
\* then LspClient.sendCustomRequest(extension.method, params).
SendCustomRequest(s, i) ==
    LET c == s.calls[i].client
        uri == UriOf(s.calls[i].file)
    IN  IF connection[c] = "null"
        THEN Fail(s, i, ErrNullConnection)
        ELSE [Send(s, c, CustomRequest(MethodOf(s.calls[i].tool), uri, i))
                 EXCEPT !.calls[i].pc = "awaitReply"]

\* What a handler does once getClientAndUri has returned.
AfterEnsureOpen(s, i) ==
    CASE s.calls[i].tool = "open_file" -> Succeed(s, i, << >>, "")
      [] s.calls[i].tool = "find_references" -> FindReferences(s, i)
      [] s.calls[i].tool = "rename" -> Rename(s, i)
      [] IsExtensionTool(s.calls[i].tool) -> SendCustomRequest(s, i)
      [] OTHER -> WaitForDiagnostics(s, i)

\* LspClient.ensureOpen up to the await of readFile.
EnsureOpen(s, i) ==
    LET c == s.calls[i].client
        uri == UriOf(s.calls[i].file)
    IN  IF MapHas(openDocuments[c], uri)
        THEN AfterEnsureOpen(s, i)
        ELSE [s EXCEPT !.calls[i].pc = "reading"]

\* The matchers of the configuration as a table, and the tables a
\* configuration of the two peers over two files can give; in some both
\* peers accept the same file.
MatcherTable == [c \in ClientNames |-> {f \in Files : Matcher(c, f)}]
MatcherTables == [ClientNames -> SUBSET {"a.ts", "main.rs"}]

\* A lookup that returns the last running client whose matcher accepts.
GetClientForFileLast(match, f) ==
    LET ks == {k \in 1..Len(Servers) : running[Servers[k]] /\ f \in match[Servers[k]]}
    IN  IF ks = {} THEN NoClient ELSE Servers[CHOOSE x \in ks : \A y \in ks : x >= y]

\* LspManager.getClientForFile under matchers match: the first running client
\* whose matcher accepts.
GetClientForFileIn(match, f) ==
    LET ks == {k \in 1..Len(Servers) : running[Servers[k]] /\ f \in match[Servers[k]]}
    IN  IF ks = {} THEN NoClient ELSE Servers[Min(ks)]

\* LspManager.getClientForFile under the matchers of the configuration.
GetClientForFile(f) == GetClientForFileIn(MatcherTable, f)

\* LspManager.getAllClients: the running clients, in configuration order.
GetAllClients == SelectSeq(Servers, LAMBDA c : running[c])

\* Candidate selection that looks at the running flag only.
StartCandidateNotRunning(f) ==
    LET ks == {k \in 1..Len(Servers) : ~running[Servers[k]] /\ Matcher(Servers[k], f)}
    IN  IF ks = {} THEN NoClient ELSE Servers[Min(ks)]

\* Candidate selection that does not ask the matcher.
StartCandidateUnmatched(f) ==
    LET ks == {k \in 1..Len(Servers) : ~started[Servers[k]]}
    IN  IF ks = {} THEN NoClient ELSE Servers[Min(ks)]

\* ensureClientForFile: the first configured-but-not-started client whose
\* matcher accepts.
StartCandidate(f) ==
    LET ks == {k \in 1..Len(Servers) : ~started[Servers[k]] /\ Matcher(Servers[k], f)}
    IN  IF ks = {} THEN NoClient ELSE Servers[Min(ks)]

Accepting == bridge # "exited" /\ Len(calls) < MaxCalls

\* A tool call whose file has a running client: ensureClientForFile returns
\* it and getClientAndUri goes on to ensureOpen.
CallReady(tool, f) ==
    /\ Accepting
    /\ GetClientForFile(f) # NoClient
    /\ LET i == Len(calls) + 1
           s0 == [Cur EXCEPT !.calls = Append(calls, NewCall(tool, f, GetClientForFile(f)))]
       IN  Commit(EnsureOpen(s0, i))
    /\ UNCHANGED <<lifeVars, docVars, diagnosticsCache, lastPublish, timeVars>>

\* LspClient.ensureOpen: readFile has read the file.
ReadFileDone(i) ==
    /\ bridge # "exited"
    /\ i \in 1..Len(calls)
    /\ calls[i].pc = "reading"
    /\ calls' = [calls EXCEPT ![i].pc = "read", ![i].text = disk[calls[i].file]]
    /\ UNCHANGED <<lifeVars, docVars, diagVars, timeVars, sent>>

\* LspClient.ensureOpen: readFile rejects and the tool call fails.
ReadFileError(i) ==
    /\ bridge # "exited"
    /\ i \in 1..Len(calls)
    /\ calls[i].pc = "reading"
    /\ Commit(Fail(Cur, i, ErrReadFile))
    /\ UNCHANGED <<lifeVars, docVars, diagnosticsCache, lastPublish, timeVars>>

\* LspClient.ensureOpen after the await: record the document at version 1,
\* send didOpen, return the uri; the handler goes on.
EnsureOpenResume(i) ==
    /\ bridge # "exited"
    /\ i \in 1..Len(calls)
    /\ calls[i].pc = "read"
    /\ LET c == calls[i].client
           uri == UriOf(calls[i].file)
           doc == [version |-> 1, content |-> calls[i].text]
       IN  /\ openDocuments' = [openDocuments EXCEPT ![c] = MapSet(@, uri, doc)]
           /\ IF connection[c] = "null"
              THEN Commit(Fail(Cur, i, ErrNullConnection))
              ELSE Commit(AfterEnsureOpen(Send(Cur, c, DidOpen(uri, doc.version, doc.content)), i))
    /\ UNCHANGED <<lifeVars, disk, diagnosticsCache, lastPublish, timeVars>>

\* ---------------------------------------------------------- lifecycle
\* LspClient.kill: dispose and forget the connection, SIGKILL and forget the
\* subprocess.
KillConnection(c) == [connection EXCEPT ![c] = "null"]
KillProcess(c) == [process EXCEPT ![c] = "null"]
KillChild(c) ==
    [child EXCEPT ![c] = IF process[c] = "set" /\ @ = "alive" THEN "killed" ELSE @]

Kill(c) ==
    /\ connection' = KillConnection(c)
    /\ process' = KillProcess(c)
    /\ child' = KillChild(c)

\* A tool call whose file has no running client but a client that was never
\* started: ensureClientForFile starts it. LspClient.start up to the await of
\* the initialize reply: spawn the subprocess, create the connection, listen,
\* send initialize.
CallStart(tool, f) ==
    /\ Accepting
    /\ GetClientForFile(f) = NoClient
    /\ StartCandidate(f) # NoClient
    /\ LET c == StartCandidate(f) IN
       /\ started' = [started EXCEPT ![c] = TRUE]
       /\ orphans' = [orphans EXCEPT ![c] =
                         IF process[c] = "set" /\ child[c] = "alive" THEN @ + 1 ELSE @]
       /\ process' = [process EXCEPT ![c] = "set"]
       /\ child' = [child EXCEPT ![c] = "alive"]
       /\ connection' = [connection EXCEPT ![c] = "open"]
       /\ sent' = [sent EXCEPT ![c] = @ \o <<SpawnEvent, InitializeRequest>>]
       /\ calls' = Append(calls, [NewCall(tool, f, c) EXCEPT !.pc = "awaitInitialize"])
    /\ UNCHANGED <<running, capabilities, shut, bridge, docVars, diagVars, timeVars>>

\* A tool call whose file has neither: ensureClientForFile returns null and
\* getClientAndUri throws.
CallNoServer(tool, f) ==
    /\ Accepting
    /\ GetClientForFile(f) = NoClient
    /\ StartCandidate(f) = NoClient
    /\ LET i == Len(calls) + 1
           s0 == [Cur EXCEPT !.calls = Append(calls, NewCall(tool, f, NoClient))]
       IN  Commit(Fail(s0, i, ErrNoServer))
    /\ UNCHANGED <<lifeVars, docVars, diagnosticsCache, lastPublish, timeVars>>

\* ------------------------------------------------------ input validation
\* A tool input holds the parameters the caller gave: a function from their
\* names to their values.
ParamNames == {"file", "line", "col", "newName", "query"}
FullInput == [file |-> "a.ts", line |-> 1, col |-> 1, newName |-> "y", query |-> "q"]
EmptyFileInput == [FullInput EXCEPT !.file = ""]
\* Required parameters a tool input may lack (the empty input apart).
MaxMissing == 1
Given == {P \in SUBSET ParamNames : Cardinality(ParamNames \ P) <= MaxMissing} \cup {{}}
Inputs == {[k \in P |-> FullInput[k]] : P \in Given} \cup {EmptyFileInput}

Has(input, k) == k \in DOMAIN input
\* !input[k] for a string parameter: not given, or the empty string.
Falsy(input, k) == ~Has(input, k) \/ input[k] = ""
Valid == ""
MissingParameter(k) == "Missing required parameter: " \o k

\* ToolHandler.requireFile: !input.file.
RequireFile(input) ==
    IF Falsy(input, "file") THEN MissingParameter("file") ELSE Valid

\* ToolHandler.requirePosition: file, then line == null, then col == null.
RequirePosition(input) ==
    IF RequireFile(input) # Valid THEN RequireFile(input)
    ELSE IF ~Has(input, "line") THEN MissingParameter("line")
    ELSE IF ~Has(input, "col") THEN MissingParameter("col")
    ELSE Valid

\* The rename handler with the newName test left until after the client and
\* the document are there.
ValidateRenameLate(tool, input) ==
    CASE tool = "open_file" -> RequireFile(input)
      [] tool \in {"find_references", "rename"} -> RequirePosition(input)
      [] tool = "workspace_symbols" ->
            IF Falsy(input, "query") THEN MissingParameter("query") ELSE Valid
      [] OTHER -> Valid

\* What the handler of a tool throws before it asks for a client: the
\* message of the first failing test, or Valid.
Validate(tool, input) ==
    CASE tool = "open_file" -> RequireFile(input)
      [] tool = "find_references" -> RequirePosition(input)
      [] tool = "rename" ->
            IF RequirePosition(input) # Valid THEN RequirePosition(input)
            ELSE IF Falsy(input, "newName") THEN MissingParameter("newName")
            ELSE Valid
      [] tool = "workspace_symbols" ->
            IF Falsy(input, "query") THEN MissingParameter("query") ELSE Valid
      [] OTHER -> Valid

\* A tool call whose input fails validation: the handler throws at once.
CallInvalid(tool, input) ==
    /\ Accepting
    /\ Validate(tool, input) # Valid
    /\ LET i == Len(calls) + 1
           f == IF Has(input, "file") THEN input.file ELSE ""
           s0 == [Cur EXCEPT !.calls = Append(calls, NewCall(tool, f, NoClient))]
       IN  Commit(Fail(s0, i, Validate(tool, input)))
    /\ UNCHANGED <<lifeVars, docVars, diagnosticsCache, lastPublish, timeVars>>

\* A call of a tool that works on one file arrives.
ToolCall(tool, input) ==
    \/ CallInvalid(tool, input)
    \/ /\ Validate(tool, input) = Valid
       /\ \/ CallReady(tool, input.file)
          \/ CallStart(tool, input.file)
          \/ CallNoServer(tool, input.file)

\* ------------------------------------------------------ workspace symbols
\* LspManager.toRelativePath: the path of a file:// URI relative to the root.
ToRelativePath(uri) == CHOOSE f \in Files : UriOf(f) = uri

\* symbolKindName, for the kinds the peers of the model answer with.
SymbolKindName(kind) ==
    CASE kind = 5 -> "Class"
      [] kind = 12 -> "Function"
      [] OTHER -> "Kind(" \o ToString(kind) \o ")"

\* What a peer answers workspace/symbol with: null or a list of symbols. A
\* SymbolInformation has a location with a 0-based range start and a
\* container name; a WorkspaceSymbol of the model has neither.
SymbolInformation(name, kind, f, line, character) ==
    [name |-> name, kind |-> kind, containerName |-> "C",
     location |-> [uri |-> UriOf(f), line |-> line, character |-> character]]
WorkspaceSymbol(name, kind) == [name |-> name, kind |-> kind]

NullAnswer == [null |-> TRUE, items |-> << >>]
ListAnswer(items) == [null |-> FALSE, items |-> items]
SymbolAnswers ==
    {NullAnswer, ListAnswer(<< >>),
     ListAnswer(<<SymbolInformation("A", 5, "a.ts", 0, 3)>>),
     ListAnswer(<<WorkspaceSymbol("B", 12), SymbolInformation("A", 99, "main.rs", 2, 0)>>)}

\* The object handleWorkspaceSymbols pushes for one symbol; a key whose value
\* is undefined is left out, as JSON.stringify leaves it out.
NormalizeSymbol(sym) ==
    IF "location" \in DOMAIN sym
    THEN [name |-> sym.name, kind |-> SymbolKindName(sym.kind),
          file |-> ToRelativePath(sym.location.uri),
          line |-> sym.location.line + 1, col |-> sym.location.character + 1,
          containerName |-> sym.containerName]
    ELSE [name |-> sym.name, kind |-> SymbolKindName(sym.kind)]

NormalizeSymbols(items) == [k \in 1..Len(items) |-> NormalizeSymbol(items[k])]

\* The settled promises of Promise.allSettled, in the order of the clients:
\* the loop of handleWorkspaceSymbols skips what was rejected and what is
\* null, and pushes the symbols of the others.
RECURSIVE AllSymbols(_)
AllSymbols(fan) ==
    IF fan = << >> THEN << >>
    ELSE (IF fan[1].state # "fulfilled" \/ fan[1].value.null
          THEN << >>
          ELSE NormalizeSymbols(fan[1].value.items)) \o AllSymbols(Tail(fan))

\* JSON.stringify(allSymbols, null, 2).
JsonSymbol(o) ==
    "  {\n    \"name\": " \o JsonString(o.name)
    \o ",\n    \"kind\": " \o JsonString(o.kind)
    \o (IF "file" \in DOMAIN o
        THEN ",\n    \"file\": " \o JsonString(o.file)
             \o ",\n    \"line\": " \o ToString(o.line)
             \o ",\n    \"col\": " \o ToString(o.col)
             \o ",\n    \"containerName\": " \o JsonString(o.containerName)
        ELSE "")
    \o "\n  }"

RECURSIVE JsonSymbolItems(_)
JsonSymbolItems(items) ==
    IF Len(items) = 1 THEN JsonSymbol(items[1])
    ELSE JsonSymbol(items[1]) \o ",\n" \o JsonSymbolItems(Tail(items))

JsonSymbols(items) ==
    IF items = << >> THEN "[]" ELSE "[\n" \o JsonSymbolItems(items) \o "\n]"

Settled(fan) == \A k \in 1..Len(fan) : fan[k].state # "pending"

\* handleWorkspaceSymbols after Promise.allSettled: once every promise has
\* settled the symbols are collected and returned.
CollectSymbols(s, i) ==
    IF Settled(s.calls[i].fan)
    THEN LET all == AllSymbols(s.calls[i].fan) IN
         [s EXCEPT !.calls[i].pc = "done", !.calls[i].result = "ok",
                   !.calls[i].diags = all,
                   !.calls[i].response = OkResult(JsonSymbols(all))]
    ELSE [s EXCEPT !.calls[i].pc = "awaitSymbols"]

\* LspClient.workspaceSymbols of every client of getAllClients: the request
\* is sent, or this.connection! is null and the promise rejects at once.
FanOut(clients) ==
    [k \in 1..Len(clients) |->
        [client |-> clients[k],
         state |-> IF connection[clients[k]] = "null" THEN "rejected" ELSE "pending",
         value |-> NullAnswer]]

\* A workspace_symbols call with a query arrives: handleWorkspaceSymbols up to
\* the await of Promise.allSettled.
CallSymbols(input) ==
    /\ Accepting
    /\ Validate("workspace_symbols", input) = Valid
    /\ LET i == Len(calls) + 1
           call == [NewCall("workspace_symbols", "", NoClient) EXCEPT
                       !.query = input.query, !.fan = FanOut(GetAllClients)]
           s0 == [Cur EXCEPT
                     !.calls = Append(calls, call),
                     !.sent = [c \in ClientNames |->
                                  IF running[c] /\ connection[c] # "null"
                                  THEN Append(sent[c], WorkspaceSymbolRequest(i))
                                  ELSE sent[c]]]
       IN  Commit(CollectSymbols(s0, i))
    /\ UNCHANGED <<lifeVars, docVars, diagnosticsCache, lastPublish, timeVars>>

\* A peer answers the workspace/symbol request of call i.
SymbolsReply(i, k, answer) ==
    /\ bridge # "exited"
    /\ i \in 1..Len(calls)
    /\ calls[i].pc = "awaitSymbols"
    /\ k \in 1..Len(calls[i].fan)
    /\ calls[i].fan[k].state = "pending"
    /\ connection[calls[i].fan[k].client] # "null"
    /\ Commit(CollectSymbols([Cur EXCEPT !.calls[i].fan[k].state = "fulfilled",
                                         !.calls[i].fan[k].value = answer], i))
    /\ UNCHANGED <<lifeVars, docVars, diagnosticsCache, lastPublish, timeVars>>

\* The workspace/symbol request of call i rejects: the peer answers with an
\* error, or the connection is gone.
SymbolsRejected(i, k) ==
    /\ bridge # "exited"
    /\ i \in 1..Len(calls)
    /\ calls[i].pc = "awaitSymbols"
    /\ k \in 1..Len(calls[i].fan)
    /\ calls[i].fan[k].state = "pending"
    /\ Commit(CollectSymbols([Cur EXCEPT !.calls[i].fan[k].state = "rejected"], i))
    /\ UNCHANGED <<lifeVars, docVars, diagnosticsCache, lastPublish, timeVars>>

\* -------------------------------------------------------------- positions
\* The largest line and column of a tool input; they are 1-based, the ones
\* the peers answer with 0-based.
MaxLine == 2

\* A tool call with a position on a file that has a running client.
CallAt(tool, input) ==
    /\ Accepting
    /\ Validate(tool, input) = Valid
    /\ GetClientForFile(input.file) # NoClient
    /\ LET i == Len(calls) + 1
           call == [NewCall(tool, input.file, GetClientForFile(input.file)) EXCEPT
                       !.line = input.line, !.col = input.col]
       IN  Commit(EnsureOpen([Cur EXCEPT !.calls = Append(calls, call)], i))
    /\ UNCHANGED <<lifeVars, docVars, diagnosticsCache, lastPublish, timeVars>>

\* A Location and a LocationLink of the wire, by the start of their range and
\* of their targetSelectionRange.
Location(f, line, character) ==
    [uri |-> UriOf(f), line |-> line, character |-> character]
LocationLink(f, line, character) ==
    [targetUri |-> UriOf(f), line |-> line, character |-> character]

\* What a peer answers a references request with.
LocationAnswers ==
    {NullAnswer, ListAnswer(<< >>),
     ListAnswer(<<Location("a.ts", 1, 0)>>),
     ListAnswer(<<Location("b.ts", 0, 1), LocationLink("a.ts", 1, 0)>>)}

\* ToolHandler.formatLocation, and the branch of formatLocationResult for a
\* LocationLink.
FormatLocation(loc) ==
    IF "targetUri" \in DOMAIN loc
    THEN [file |-> ToRelativePath(loc.targetUri),
          line |-> loc.line + 1, col |-> loc.character + 1]
    ELSE [file |-> ToRelativePath(loc.uri),
          line |-> loc.line + 1, col |-> loc.character + 1]

FormatLocations(items) == [k \in 1..Len(items) |-> FormatLocation(items[k])]

\* JSON.stringify(formatLocationResult(result), null, 2): null, [], the one
\* location alone, or the array of them.
JsonLocation(pad, o) ==
    pad \o "{\n"
    \o pad \o "  \"file\": " \o JsonString(o.file) \o ",\n"
    \o pad \o "  \"line\": " \o ToString(o.line) \o ",\n"
    \o pad \o "  \"col\": " \o ToString(o.col) \o "\n"
    \o pad \o "}"

RECURSIVE JsonLocationItems(_)
JsonLocationItems(items) ==
    IF Len(items) = 1 THEN JsonLocation("  ", items[1])
    ELSE JsonLocation("  ", items[1]) \o ",\n" \o JsonLocationItems(Tail(items))

JsonLocationResult(answer) ==
    LET formatted == FormatLocations(answer.items) IN
    CASE answer.null -> "null"
      [] ~answer.null /\ Len(formatted) = 0 -> "[]"
      [] ~answer.null /\ Len(formatted) = 1 -> JsonLocation("", formatted[1])
      [] OTHER -> "[\n" \o JsonLocationItems(formatted) \o "\n]"

\* ToolHandler.handle: the value the handler computed is returned as text.
SucceedWith(s, i, value, text) ==
    [s EXCEPT !.calls[i].pc = "done", !.calls[i].result = "ok",
              !.calls[i].diags = value, !.calls[i].response = OkResult(text)]

\* The peer answers the references request of call i; handleFindReferences
\* returns formatLocationResult of the answer.
LocationsReply(i, answer) ==
    /\ bridge # "exited"
    /\ i \in 1..Len(calls)
    /\ calls[i].pc = "awaitReply"
    /\ calls[i].tool = "find_references"
    /\ connection[calls[i].client] # "null"
    /\ Commit(SucceedWith([Cur EXCEPT !.calls[i].answer = answer], i,
                          FormatLocations(answer.items), JsonLocationResult(answer)))
    /\ UNCHANGED <<lifeVars, docVars, diagnosticsCache, lastPublish, timeVars>>

\* --------------------------------------------------------- workspace edits
\* A TextEdit of the wire: a range from (line, character) to the character
\* after it, and the new text.
TextEdit(line, character, newText) ==
    [range |-> [start |-> [line |-> line, character |-> character],
                end |-> [line |-> line, character |-> character + 1]],
     newText |-> newText]

\* An entry of WorkspaceEdit.changes as Object.entries gives it, and the
\* members of WorkspaceEdit.documentChanges: a TextDocumentEdit or a resource
\* operation.
ChangesEntry(f, edits) == [uri |-> UriOf(f), edits |-> edits]
TextDocumentEdit(f, edits) == [textDocument |-> [uri |-> UriOf(f)], edits |-> edits]
CreateFile(f) == [kind |-> "create", uri |-> UriOf(f)]

ChangesOnly(entries) == [changes |-> entries]
DocumentChangesOnly(members) == [documentChanges |-> members]
ChangesAndDocumentChanges(entries, members) ==
    [changes |-> entries, documentChanges |-> members]

\* What a peer answers a rename request with: null or a WorkspaceEdit.
NullEdit == [null |-> TRUE, edit |-> ChangesOnly(<< >>)]
EditAnswer(edit) == [null |-> FALSE, edit |-> edit]
E1 == TextEdit(0, 0, "y")
E2 == TextEdit(1, 2, "y")
WorkspaceEdits ==
    {ChangesOnly(<<ChangesEntry("a.ts", <<E1, E2>>)>>),
     DocumentChangesOnly(<<TextDocumentEdit("a.ts", <<E1, E2>>)>>),
     DocumentChangesOnly(<<TextDocumentEdit("a.ts", <<E1>>), TextDocumentEdit("a.ts", <<E2>>)>>),
     DocumentChangesOnly(<<CreateFile("b.ts"), TextDocumentEdit("b.ts", <<E1>>)>>),
     ChangesAndDocumentChanges(<<ChangesEntry("a.ts", <<E1>>)>>,
                               <<TextDocumentEdit("a.ts", <<E1>>)>>),
     ChangesAndDocumentChanges(<<ChangesEntry("b.ts", <<E2>>)>>,
                               <<TextDocumentEdit("a.ts", <<E1>>)>>)}
RenameAnswers == {NullEdit} \cup {EditAnswer(edit) : edit \in WorkspaceEdits}

\* The object formatWorkspaceEdit maps a TextEdit to.
FormatTextEdit(e) ==
    [range |-> [start |-> [line |-> e.range.start.line + 1,
                           col |-> e.range.start.character + 1],
                end |-> [line |-> e.range.end.line + 1,
                         col |-> e.range.end.character + 1]],
     newText |-> e.newText]

FormatTextEdits(edits) == [k \in 1..Len(edits) |-> FormatTextEdit(edits[k])]

\* changes[file] = edits on the object changes, whose keys keep the order of
\* their first assignment.
Assign(changes, file, edits) ==
    IF \E k \in 1..Len(changes) : changes[k].file = file
    THEN [k \in 1..Len(changes) |->
             IF changes[k].file = file THEN [file |-> file, edits |-> edits]
             ELSE changes[k]]
    ELSE Append(changes, [file |-> file, edits |-> edits])

\* The loop of formatWorkspaceEdit over Object.entries(edit.changes).
RECURSIVE FromChanges(_, _)
FromChanges(changes, entries) ==
    IF entries = << >> THEN changes
    ELSE FromChanges(Assign(changes, ToRelativePath(entries[1].uri),
                            FormatTextEdits(entries[1].edits)),
                     Tail(entries))

\* The loop of formatWorkspaceEdit over edit.documentChanges: members with
\* textDocument and edits are assigned, the others skipped.
RECURSIVE FromDocumentChanges(_, _)
FromDocumentChanges(changes, members) ==
    IF members = << >> THEN changes
    ELSE FromDocumentChanges(
             IF {"textDocument", "edits"} \subseteq DOMAIN members[1]
             THEN Assign(changes, ToRelativePath(members[1].textDocument.uri),
                         FormatTextEdits(members[1].edits))
             ELSE changes,
             Tail(members))

\* ToolHandler.formatWorkspaceEdit: the value of the key changes of what it
\* returns.
FormatWorkspaceEdit(edit) ==
    LET fromChanges == IF "changes" \in DOMAIN edit
                       THEN FromChanges(<< >>, edit.changes) ELSE << >>
    IN  IF "documentChanges" \in DOMAIN edit
        THEN FromDocumentChanges(fromChanges, edit.documentChanges)
        ELSE fromChanges

\* JSON.stringify({ changes }, null, 2).
JsonPoint(pad, key, p) ==
    pad \o JsonString(key) \o ": {\n"
    \o pad \o "  \"line\": " \o ToString(p.line) \o ",\n"
    \o pad \o "  \"col\": " \o ToString(p.col) \o "\n"
    \o pad \o "}"

JsonTextEdit(e) ==
    "      {\n        \"range\": {\n"
    \o JsonPoint("          ", "start", e.range.start) \o ",\n"
    \o JsonPoint("          ", "end", e.range.end) \o "\n"
    \o "        },\n        \"newText\": " \o JsonString(e.newText) \o "\n      }"

RECURSIVE JsonTextEditItems(_)
JsonTextEditItems(edits) ==
    IF Len(edits) = 1 THEN JsonTextEdit(edits[1])
    ELSE JsonTextEdit(edits[1]) \o ",\n" \o JsonTextEditItems(Tail(edits))

JsonFileEdits(entry) ==
    "    " \o JsonString(entry.file) \o ": "
    \o (IF entry.edits = << >> THEN "[]"
        ELSE "[\n" \o JsonTextEditItems(entry.edits) \o "\n    ]")

RECURSIVE JsonFileEditsItems(_)
JsonFileEditsItems(changes) ==
    IF Len(changes) = 1 THEN JsonFileEdits(changes[1])
    ELSE JsonFileEdits(changes[1]) \o ",\n" \o JsonFileEditsItems(Tail(changes))

JsonWorkspaceEdit(changes) ==
    "{\n  \"changes\": "
    \o (IF changes = << >> THEN "{}"
        ELSE "{\n" \o JsonFileEditsItems(changes) \o "\n  }")
    \o "\n}"

\* The peer answers the rename request of call i; handleRename returns null or
\* formatWorkspaceEdit of the answer.
RenameReply(i, answer) ==
    /\ bridge # "exited"
    /\ i \in 1..Len(calls)
    /\ calls[i].pc = "awaitReply"
    /\ calls[i].tool = "rename"
    /\ connection[calls[i].client] # "null"
    /\ Commit(SucceedWith([Cur EXCEPT !.calls[i].answer = answer], i,
                          IF answer.null THEN << >> ELSE FormatWorkspaceEdit(answer.edit),
                          IF answer.null THEN "null"
                          ELSE JsonWorkspaceEdit(FormatWorkspaceEdit(answer.edit))))
    /\ UNCHANGED <<lifeVars, docVars, diagnosticsCache, lastPublish, timeVars>>

\* ------------------------------------------------------- extension tools
ErrUnknownTool(toolName) == "Unknown tool: " \o toolName

\* handleExtensionRequest sending the request without ensureOpen.
CallExtensionNoOpen(toolName, input) ==
    /\ Accepting
    /\ LET i == Len(calls) + 1
           c == GetClientForExtensionTool(toolName)
           f == IF Has(input, "file") THEN input.file ELSE ""
           s0 == [Cur EXCEPT !.calls = Append(calls, NewCall(toolName, f, c))]
       IN  IF c = NoClient
           THEN Commit(Fail(s0, i, ErrUnknownTool(toolName)))
           ELSE IF RequireFile(input) # Valid
                THEN Commit(Fail(s0, i, RequireFile(input)))
                ELSE Commit(SendCustomRequest(s0, i))
    /\ UNCHANGED <<lifeVars, docVars, diagnosticsCache, lastPublish, timeVars>>

\* A call of a document-shaped extension tool arrives: handleExtensionRequest
\* up to the await of readFile in ensureOpen, or to the request when the
\* document is open already.
CallExtension(toolName, input) ==
    /\ Accepting
    /\ LET i == Len(calls) + 1
           c == GetClientForExtensionTool(toolName)
           f == IF Has(input, "file") THEN input.file ELSE ""
           s0 == [Cur EXCEPT !.calls = Append(calls, NewCall(toolName, f, c))]
       IN  IF c = NoClient
           THEN Commit(Fail(s0, i, ErrUnknownTool(toolName)))
           ELSE IF RequireFile(input) # Valid
                THEN Commit(Fail(s0, i, RequireFile(input)))
                ELSE Commit(EnsureOpen(s0, i))
    /\ UNCHANGED <<lifeVars, docVars, diagnosticsCache, lastPublish, timeVars>>

\* What a peer answers an extension request with.
CustomAnswers == {<< >>, <<"organized">>}

\* The peer answers the extension request of call i; the handler returns the
\* answer as it is.
CustomReply(i, answer) ==
    /\ bridge # "exited"
    /\ i \in 1..Len(calls)
    /\ calls[i].pc = "awaitReply"
    /\ IsExtensionTool(calls[i].tool)
    /\ connection[calls[i].client] # "null"
    /\ Commit(SucceedWith([Cur EXCEPT !.calls[i].answer = ListAnswer(answer)], i,
                          answer, JsonArray(answer)))
    /\ UNCHANGED <<lifeVars, docVars, diagnosticsCache, lastPublish, timeVars>>

\* ----------------------------------------------------- no configuration
\* main with loadConfig returning null: no manager, no tool definitions, no
\* tool handler; the MCP server is connected all the same.
NoConfigText ==
    "No mclsp.yaml config found in the project root. Create one to enable LSP tools."

\* The ListTools handler: the names of toolDefs.
ListToolsResult(names) == [tools |-> names]

ListToolsNoConfig ==
    /\ bridge = "unconfigured"
    /\ Len(calls) < MaxCalls
    /\ calls' = Append(calls, [NewCall("tools/list", "", NoClient) EXCEPT
                                  !.pc = "done", !.result = "ok",
                                  !.response = ListToolsResult(<< >>)])
    /\ UNCHANGED <<lifeVars, docVars, diagVars, timeVars, sent>>

\* A CallTool handler that answers with an empty result.
CallToolNoConfigOk(tool, input) ==
    /\ bridge = "unconfigured"
    /\ Len(calls) < MaxCalls
    /\ calls' = Append(calls, [NewCall(tool, IF Has(input, "file") THEN input.file ELSE "",
                                       NoClient) EXCEPT
                                  !.pc = "done", !.result = "ok",
                                  !.response = OkResult("[]")])
    /\ UNCHANGED <<lifeVars, docVars, diagVars, timeVars, sent>>

\* The CallTool handler without a tool handler: an isError text.
CallToolNoConfig(tool, input) ==
    /\ bridge = "unconfigured"
    /\ Len(calls) < MaxCalls
    /\ calls' = Append(calls, [NewCall(tool, IF Has(input, "file") THEN input.file ELSE "",
                                       NoClient) EXCEPT
                                  !.pc = "done", !.result = "error",
                                  !.error = NoConfigText,
                                  !.response = [content |-> <<TextBlock(NoConfigText)>>,
                                                isError |-> TRUE]])
    /\ UNCHANGED <<lifeVars, docVars, diagVars, timeVars, sent>>

\* SIGINT or SIGTERM without a manager: the MCP server is closed and the
\* process exits.
SignalNoConfig ==
    /\ bridge = "unconfigured"
    /\ bridge' = "exited"
    /\ UNCHANGED <<process, child, orphans, connection, running, capabilities, started, shut,
                   docVars, diagVars, timeVars, calls, sent>>

\* ------------------------------------------------------ the tool catalog
\* CAPABILITY_MAPPINGS: the capability flag of a peer and the tools it
\* stands for, in the order of the table.
Mapping(key, tools) == [capabilityKey |-> key, tools |-> tools]

CapabilityMappings ==
    << Mapping("definitionProvider", <<"goto_definition">>),
       Mapping("typeDefinitionProvider", <<"goto_type_definition">>),
       Mapping("implementationProvider", <<"goto_implementation">>),
       Mapping("declarationProvider", <<"goto_declaration">>),
       Mapping("referencesProvider", <<"find_references">>),
       Mapping("hoverProvider", <<"hover">>),
       Mapping("signatureHelpProvider", <<"signature_help">>),
       Mapping("documentSymbolProvider", <<"document_symbols">>),
       Mapping("workspaceSymbolProvider", <<"workspace_symbols">>),
       Mapping("codeActionProvider", <<"code_actions">>),
       Mapping("renameProvider", <<"rename_prepare", "rename">>),
       Mapping("callHierarchyProvider",
               <<"call_hierarchy_incoming", "call_hierarchy_outgoing">>),
       Mapping("typeHierarchyProvider", <<"type_hierarchy">>) >>

CapabilityKeys == {CapabilityMappings[k].capabilityKey : k \in 1..Len(CapabilityMappings)}

\* The argument of buildToolDefinitions: undefined, or an object whose truthy
\* flags are the given keys.
UndefinedCapabilities == [defined |-> FALSE, truthy |-> {}]
ServerCapabilities(keys) == [defined |-> TRUE, truthy |-> keys]

RECURSIVE MappedTools(_, _)
MappedTools(caps, k) ==
    IF k > Len(CapabilityMappings) THEN << >>
    ELSE (IF CapabilityMappings[k].capabilityKey \in caps.truthy
          THEN CapabilityMappings[k].tools ELSE << >>)
         \o MappedTools(caps, k + 1)

\* buildToolDefinitions: the names of the tools returned. Reading a flag of
\* undefined throws.
BuildToolDefinitions(caps) ==
    IF ~caps.defined THEN [thrown |-> TRUE, tools |-> << >>]
    ELSE [thrown |-> FALSE,
          tools |-> MappedTools(caps, 1) \o <<"open_file", "diagnostics">>]

\* A tools/list request on a bridge with a configuration, whose main built
\* toolDefs from caps. A throw in main ends the process with exit code 1.
ListTools(caps) ==
    LET built == BuildToolDefinitions(caps) IN
    /\ bridge = "serving"
    /\ Len(calls) < MaxCalls
    /\ \A i \in 1..Len(calls) :
          calls[i].tool = "tools/list" =>
              /\ ~built.thrown
              /\ calls[i].response = ListToolsResult(built.tools)
    /\ IF built.thrown
       THEN /\ \A i \in 1..Len(calls) : calls[i].tool = "tools/list"
            /\ calls' = Append(calls, [NewCall("tools/list", "", NoClient) EXCEPT
                                          !.pc = "done", !.result = "error",
                                          !.error = "TypeError"])
            /\ bridge' = "exited"
       ELSE /\ calls' = Append(calls, [NewCall("tools/list", "", NoClient) EXCEPT
                                          !.pc = "done", !.result = "ok",
                                          !.response = ListToolsResult(built.tools)])
            /\ UNCHANGED bridge
    /\ UNCHANGED <<process, child, orphans, connection, running, capabilities, started, shut,
                   docVars, diagVars, timeVars, sent>>

\* ------------------------------------------- diagnostics without a file
\* LspClient.getAllCachedDiagnostics: the URIs whose cached list is not
\* empty. The model keeps no insertion order of the cache; the entries are
\* listed in the order of FileOrder.
FileOrder == <<"a.ts", "b.ts", "main.rs", "main.py">>

GetAllCachedDiagnostics(c) ==
    SelectSeq(FileOrder, LAMBDA f : /\ MapHas(diagnosticsCache[c], UriOf(f))
                                    /\ Len(diagnosticsCache[c][UriOf(f)].diagnostics) > 0)

\* formatDiagnostic(d, file), of which the model keeps the file and the
\* message.
FormatDiagnostic(d, file) == [file |-> file, message |-> d]

\* The diagnostics of the given cached files of client c, formatted.
RECURSIVE CachedOf(_, _)
CachedOf(c, files) ==
    IF files = << >> THEN << >>
    ELSE LET f == Head(files)
             ds == diagnosticsCache[c][UriOf(f)].diagnostics
         IN  [k \in 1..Len(ds) |-> FormatDiagnostic(ds[k], ToRelativePath(UriOf(f)))]
             \o CachedOf(c, Tail(files))

\* handleDiagnostics without a file: the loop over getAllClients.
RECURSIVE AllDiagnostics(_)
AllDiagnostics(clients) ==
    IF clients = << >> THEN << >>
    ELSE CachedOf(Head(clients), GetAllCachedDiagnostics(Head(clients)))
         \o AllDiagnostics(Tail(clients))

JsonDiagnostic(o) ==
    "  {\n    \"file\": " \o JsonString(o.file) \o ",\n    \"message\": "
        \o JsonString(o.message) \o "\n  }"

RECURSIVE JsonDiagnosticItems(_)
JsonDiagnosticItems(items) ==
    IF Len(items) = 1 THEN JsonDiagnostic(items[1])
    ELSE JsonDiagnostic(items[1]) \o ",\n" \o JsonDiagnosticItems(Tail(items))

JsonDiagnostics(items) ==
    IF items = << >> THEN "[]" ELSE "[\n" \o JsonDiagnosticItems(items) \o "\n]"

\* A diagnostics call without a file: it returns at once.
CallDiagnosticsAll ==
    /\ Accepting
    /\ LET i == Len(calls) + 1
           all == AllDiagnostics(GetAllClients)
           s0 == [Cur EXCEPT !.calls = Append(calls, NewCall("diagnostics", "", NoClient))]
       IN  Commit(SucceedWith(s0, i, all, JsonDiagnostics(all)))
    /\ UNCHANGED <<lifeVars, docVars, diagnosticsCache, lastPublish, timeVars>>

\* The handshake without the initialized notification.
InitializeReplySilent(i) ==
    /\ bridge # "exited"
    /\ i \in 1..Len(calls)
    /\ calls[i].pc = "awaitInitialize"
    /\ connection[calls[i].client] # "null"
    /\ capabilities' = [capabilities EXCEPT ![calls[i].client] = "caps"]
    /\ calls' = [calls EXCEPT ![i].pc = "awaitInitialized"]
    /\ UNCHANGED <<process, child, orphans, connection, running, started, shut, bridge,
                   docVars, diagVars, timeVars, sent>>

\* LspClient.start: the initialize reply arrives; the capabilities are stored
\* and initialized is sent and awaited.
InitializeReply(i) ==
    /\ bridge # "exited"
    /\ i \in 1..Len(calls)
    /\ calls[i].pc = "awaitInitialize"
    /\ connection[calls[i].client] # "null"
    /\ capabilities' = [capabilities EXCEPT ![calls[i].client] = "caps"]
    /\ sent' = [sent EXCEPT ![calls[i].client] = Append(@, InitializedNotification)]
    /\ calls' = [calls EXCEPT ![i].pc = "awaitInitialized"]
    /\ UNCHANGED <<process, child, orphans, connection, running, started, shut, bridge,
                   docVars, diagVars, timeVars>>

\* The catch of start() without this.kill().
HandshakeFailedNoKill(i) ==
    /\ bridge # "exited"
    /\ i \in 1..Len(calls)
    /\ calls[i].pc \in {"awaitInitialize", "awaitInitialized"}
    /\ Commit(Fail(Cur, i, ErrNoServer))
    /\ UNCHANGED <<lifeVars, docVars, diagnosticsCache, lastPublish, timeVars>>

\* LspClient.start: the handshake throws (the initialize request or the write
\* of initialized fails); the catch kills and rethrows, ensureClientForFile
\* logs and returns null, getClientAndUri throws.
HandshakeFailed(i) ==
    /\ bridge # "exited"
    /\ i \in 1..Len(calls)
    /\ calls[i].pc \in {"awaitInitialize", "awaitInitialized"}
    /\ Kill(calls[i].client)
    /\ Commit(Fail(Cur, i, ErrNoServer))
    /\ UNCHANGED <<orphans, running, capabilities, started, shut, bridge,
                   docVars, diagnosticsCache, lastPublish, timeVars>>

\* LspClient.start: the write of initialized completes; the client is marked
\* running, start returns, ensureClientForFile returns the client and
\* getClientAndUri goes on to ensureOpen.
InitializedWritten(i) ==
    /\ bridge # "exited"
    /\ i \in 1..Len(calls)
    /\ calls[i].pc = "awaitInitialized"
    /\ running' = [running EXCEPT ![calls[i].client] = TRUE]
    /\ Commit(EnsureOpen(Cur, i))
    /\ UNCHANGED <<process, child, orphans, connection, capabilities, started, shut, bridge,
                   docVars, diagnosticsCache, lastPublish, timeVars>>

\* The peer answers a feature request over the connection.
RequestReply(i) ==
    /\ bridge # "exited"
    /\ i \in 1..Len(calls)
    /\ calls[i].pc = "awaitReply"
    /\ connection[calls[i].client] # "null"
    /\ Commit(Succeed(Cur, i, << >>, ""))
    /\ UNCHANGED <<lifeVars, docVars, diagnosticsCache, lastPublish, timeVars>>

\* A rejection after which the handler gives the client up.
RequestRejectedKills(i) ==
    /\ bridge # "exited"
    /\ i \in 1..Len(calls)
    /\ calls[i].pc = "awaitReply"
    /\ Commit(Fail(Cur, i, ErrRequest))
    /\ Kill(calls[i].client)
    /\ running' = [running EXCEPT ![calls[i].client] = FALSE]
    /\ UNCHANGED <<orphans, capabilities, started, shut, bridge,
                   docVars, diagnosticsCache, lastPublish, timeVars>>

\* A feature request rejects: the peer answers with an error, or the
\* connection is gone.
RequestRejected(i) ==
    /\ bridge # "exited"
    /\ i \in 1..Len(calls)
    /\ calls[i].pc = "awaitReply"
    /\ Commit(Fail(Cur, i, ErrRequest))
    /\ UNCHANGED <<lifeVars, docVars, diagnosticsCache, lastPublish, timeVars>>

\* The subprocess exits (by itself or killed) or fails to spawn: the exit and
\* error handlers of start() clear _running.
ProcessExit(c) ==
    /\ bridge # "exited"
    /\ child[c] \in {"alive", "killed"}
    /\ child' = [child EXCEPT ![c] = "exited"]
    /\ running' = [running EXCEPT ![c] = FALSE]
    /\ UNCHANGED <<process, orphans, connection, capabilities, started, shut, bridge,
                   docVars, diagVars, timeVars, calls, sent>>

\* LspClient.shutdown takes the graceful path.
Graceful(c) == connection[c] # "null" /\ running[c]

\* SIGINT or SIGTERM: shutdownAll calls shutdown() on every client; each runs
\* to its first await (the shutdown request) or kills and returns.
Signal ==
    /\ bridge = "serving"
    /\ bridge' = "shuttingDown"
    /\ running' = [c \in ClientNames |-> IF Graceful(c) THEN FALSE ELSE running[c]]
    /\ sent' = [c \in ClientNames |->
                   IF Graceful(c) THEN Append(sent[c], ShutdownRequest) ELSE sent[c]]
    /\ shut' = [c \in ClientNames |-> IF Graceful(c) THEN "awaitReply" ELSE "done"]
    /\ connection' = [c \in ClientNames |-> IF Graceful(c) THEN connection[c] ELSE "null"]
    /\ process' = [c \in ClientNames |-> IF Graceful(c) THEN process[c] ELSE "null"]
    /\ child' = [c \in ClientNames |-> IF Graceful(c) THEN child[c] ELSE KillChild(c)[c]]
    /\ UNCHANGED <<orphans, capabilities, started, docVars, diagVars, timeVars, calls>>

\* LspClient.shutdown: the peer answers the shutdown request; exit is handed
\* to the connection and, the promise of sendNotification not being awaited,
\* the client is killed in the same turn: the write of exit has been done by
\* then, or it has not.
ShutdownReply(c) ==
    /\ bridge # "exited"
    /\ shut[c] = "awaitReply"
    /\ connection[c] # "null"
    /\ \E exit \in {ExitNotification, ExitUnwritten} :
          sent' = [sent EXCEPT ![c] = Append(@, exit)]
    /\ Kill(c)
    /\ shut' = [shut EXCEPT ![c] = "done"]
    /\ UNCHANGED <<orphans, running, capabilities, started, bridge,
                   docVars, diagVars, timeVars, calls>>

\* shutdown() without its timer: only a rejection of the request, which
\* needs the connection gone, ends the wait.
ShutdownFailedNoTimer(c) ==
    /\ bridge # "exited"
    /\ shut[c] = "awaitReply"
    /\ connection[c] = "null"
    /\ Kill(c)
    /\ shut' = [shut EXCEPT ![c] = "done"]
    /\ UNCHANGED <<orphans, running, capabilities, started, bridge,
                   docVars, diagVars, timeVars, calls, sent>>

\* LspClient.shutdown: the shutdown request rejects or the shutdown timeout
\* fires first; the client is killed.
ShutdownFailed(c) ==
    /\ bridge # "exited"
    /\ shut[c] = "awaitReply"
    /\ Kill(c)
    /\ shut' = [shut EXCEPT ![c] = "done"]
    /\ UNCHANGED <<orphans, running, capabilities, started, bridge,
                   docVars, diagVars, timeVars, calls, sent>>

\* shutdownAll settling with the first shutdown() that completes instead of
\* with all of them.
BridgeExitFirstSettled ==
    /\ bridge = "shuttingDown"
    /\ \E c \in ClientNames : shut[c] = "done"
    /\ bridge' = "exited"
    /\ UNCHANGED <<process, child, orphans, connection, running, capabilities, started, shut,
                   docVars, diagVars, timeVars, calls, sent>>

\* main: shutdownAll has settled; the MCP server is closed and the process
\* exits.
BridgeExit ==
    /\ bridge = "shuttingDown"
    /\ \A c \in ClientNames : shut[c] = "done"
    /\ bridge' = "exited"
    /\ UNCHANGED <<process, child, orphans, connection, running, capabilities, started, shut,
                   docVars, diagVars, timeVars, calls, sent>>

\* --------------------------------------------- document synchronisation
\* LspClient.notifyOpen.
NotifyOpen(c, f, text) ==
    LET uri == UriOf(f)
        doc == [version |-> 1, content |-> text]
    IN  /\ openDocuments' = [openDocuments EXCEPT ![c] = MapSet(@, uri, doc)]
        /\ sent' = IF connection[c] = "null" THEN sent
                   ELSE [sent EXCEPT ![c] = Append(@, DidOpen(uri, doc.version, text))]
        /\ UNCHANGED <<lifeVars, disk, diagVars, timeVars, calls>>

\* LspClient.notifyChange.
NotifyChange(c, f, text) ==
    LET uri == UriOf(f) IN
    /\ bridge # "exited"
    /\ IF ~MapHas(openDocuments[c], uri)
       THEN NotifyOpen(c, f, text)
       ELSE LET doc == [version |-> openDocuments[c][uri].version + 1, content |-> text]
            IN  /\ openDocuments' = [openDocuments EXCEPT ![c][uri] = doc]
                /\ sent' = IF connection[c] = "null" THEN sent
                           ELSE [sent EXCEPT ![c] = Append(@, DidChange(uri, doc.version, text))]
                /\ UNCHANGED <<lifeVars, disk, diagVars, timeVars, calls>>

\* notifySave that opens a document it does not find.
NotifySaveOpens(c, f) ==
    LET uri == UriOf(f) IN
    /\ bridge # "exited"
    /\ IF ~MapHas(openDocuments[c], uri)
       THEN NotifyOpen(c, f, 0)
       ELSE /\ sent' = IF connection[c] = "null" THEN sent
                       ELSE [sent EXCEPT ![c] =
                                Append(@, DidSave(uri, openDocuments[c][uri].content))]
            /\ UNCHANGED <<lifeVars, docVars, diagVars, timeVars, calls>>

\* LspClient.notifySave.
NotifySave(c, f) ==
    LET uri == UriOf(f) IN
    /\ bridge # "exited"
    /\ sent' = IF ~MapHas(openDocuments[c], uri) \/ connection[c] = "null" THEN sent
               ELSE [sent EXCEPT ![c] = Append(@, DidSave(uri, openDocuments[c][uri].content))]
    /\ UNCHANGED <<lifeVars, docVars, diagVars, timeVars, calls>>

\* notifyClose that leaves the diagnostics cache alone.
NotifyCloseKeepsCache(c, f) ==
    LET uri == UriOf(f)
        acts == MapHas(openDocuments[c], uri) /\ connection[c] # "null"
    IN  /\ bridge # "exited"
        /\ sent' = IF acts THEN [sent EXCEPT ![c] = Append(@, DidClose(uri))] ELSE sent
        /\ openDocuments' = IF acts THEN [openDocuments EXCEPT ![c] = MapDelete(@, uri)]
                            ELSE openDocuments
        /\ UNCHANGED <<lifeVars, disk, diagVars, timeVars, calls>>

\* LspClient.notifyClose.
NotifyClose(c, f) ==
    LET uri == UriOf(f)
        acts == MapHas(openDocuments[c], uri) /\ connection[c] # "null"
    IN  /\ bridge # "exited"
        /\ sent' = IF acts THEN [sent EXCEPT ![c] = Append(@, DidClose(uri))] ELSE sent
        /\ openDocuments' = IF acts THEN [openDocuments EXCEPT ![c] = MapDelete(@, uri)]
                            ELSE openDocuments
        /\ diagnosticsCache' = IF acts THEN [diagnosticsCache EXCEPT ![c] = MapDelete(@, uri)]
                               ELSE diagnosticsCache
        /\ UNCHANGED <<lifeVars, disk, diagnosticsWaiters, lastPublish, timeVars, calls>>

\* The file is rewritten on disk.
FileWrite(f) ==
    /\ bridge # "exited"
    /\ disk[f] < MaxRev
    /\ disk' = [disk EXCEPT ![f] = @ + 1]
    /\ UNCHANGED <<lifeVars, openDocuments, diagVars, timeVars, calls, sent>>

\* ------------------------------------------------------------ diagnostics
\* resolve(diags) of a waitForDiagnostics promise: settles it if it is still
\* pending (which also ends the timer's use), and does nothing otherwise; the
\* diagnostics handler then returns the list as the tool's result.
\* The call's closure (its captured cache entry and its timer) is garbage from
\* then on.
Settle(cs, i, diags, via) ==
    IF cs[i].pc = "waiting"
    THEN [cs EXCEPT ![i].pc = "done", ![i].result = "ok", ![i].diags = diags,
                    ![i].cached = NoEntry, ![i].deadline = 0, ![i].via = via,
                    ![i].response = OkResult(ResultText(cs[i], diags))]
    ELSE cs

\* for (const resolve of waiters) resolve(params.diagnostics).
RECURSIVE SettleAll(_, _, _)
SettleAll(cs, waiters, diags) ==
    IF waiters = << >> THEN cs
    ELSE SettleAll(Settle(cs, Head(waiters).call, diags, "publish"), Tail(waiters), diags)

\* The PublishDiagnosticsNotification handler.
\* The publishDiagnostics handler without the removal of the waiter list.
PublishDiagnosticsKeepsWaiters(c, uri, diags) ==
    /\ bridge # "exited"
    /\ connection[c] = "open"
    /\ diagnosticsCache' = [diagnosticsCache EXCEPT ![c] = MapSet(@, uri, Entry(diags, now))]
    /\ lastPublish' = [lastPublish EXCEPT ![c] = MapSet(@, uri, Entry(diags, now))]
    /\ IF MapHas(diagnosticsWaiters[c], uri)
       THEN /\ calls' = SettleAll(calls, diagnosticsWaiters[c][uri], diags)
            /\ UNCHANGED diagnosticsWaiters
       ELSE UNCHANGED <<calls, diagnosticsWaiters>>
    /\ UNCHANGED <<lifeVars, docVars, timeVars, sent>>

\* The publishDiagnostics handler replacing the whole cache by the new entry.
PublishDiagnosticsResetsCache(c, uri, diags) ==
    /\ bridge # "exited"
    /\ connection[c] = "open"
    /\ diagnosticsCache' = [diagnosticsCache EXCEPT ![c] = MapSet(EmptyMap, uri, Entry(diags, now))]
    /\ lastPublish' = [lastPublish EXCEPT ![c] = MapSet(@, uri, Entry(diags, now))]
    /\ IF MapHas(diagnosticsWaiters[c], uri)
       THEN /\ calls' = SettleAll(calls, diagnosticsWaiters[c][uri], diags)
            /\ diagnosticsWaiters' = [diagnosticsWaiters EXCEPT ![c] = MapDelete(@, uri)]
       ELSE UNCHANGED <<calls, diagnosticsWaiters>>
    /\ UNCHANGED <<lifeVars, docVars, timeVars, sent>>

PublishDiagnostics(c, uri, diags) ==
    /\ bridge # "exited"
    /\ connection[c] = "open"
    /\ diagnosticsCache' = [diagnosticsCache EXCEPT ![c] = MapSet(@, uri, Entry(diags, now))]
    /\ lastPublish' = [lastPublish EXCEPT ![c] = MapSet(@, uri, Entry(diags, now))]
    /\ IF MapHas(diagnosticsWaiters[c], uri)
       THEN /\ calls' = SettleAll(calls, diagnosticsWaiters[c][uri], diags)
            /\ diagnosticsWaiters' = [diagnosticsWaiters EXCEPT ![c] = MapDelete(@, uri)]
       ELSE UNCHANGED <<calls, diagnosticsWaiters>>
    /\ UNCHANGED <<lifeVars, docVars, timeVars, sent>>

\* waiters.indexOf(x): the first index of x, or -1.
IndexOf(seq, x) ==
    LET ks == {k \in 1..Len(seq) : seq[k] = x}
    IN  IF ks = {} THEN -1 ELSE Min(ks) - 1

\* waiters.splice(idx, 1).
Splice(seq, idx) ==
    [k \in 1..(Len(seq) - 1) |-> IF k <= idx THEN seq[k] ELSE seq[k + 1]]

\* The array the timer callback leaves behind: it looks for resolve.
AfterTimeout(waiters, i) ==
    LET idx == IndexOf(waiters, Resolve(i))
    IN  IF idx >= 0 THEN Splice(waiters, idx) ELSE waiters

\* The setTimeout callback of waitForDiagnostics.
Timeout(i) ==
    /\ bridge # "exited"
    /\ i \in 1..Len(calls)
    /\ calls[i].pc = "waiting"
    /\ now >= calls[i].deadline
    /\ LET c == calls[i].client
           uri == UriOf(calls[i].file)
           cached == calls[i].cached
       IN  /\ IF MapHas(diagnosticsWaiters[c], uri)
              THEN LET left == AfterTimeout(diagnosticsWaiters[c][uri], i)
                   IN  diagnosticsWaiters' =
                          [diagnosticsWaiters EXCEPT ![c] =
                              IF Len(left) = 0 THEN MapDelete(@, uri) ELSE MapSet(@, uri, left)]
              ELSE UNCHANGED diagnosticsWaiters
           /\ calls' = Settle(calls, i, IF cached.present THEN cached.diagnostics ELSE << >>,
                              "timeout")
    /\ UNCHANGED <<lifeVars, docVars, diagnosticsCache, lastPublish, timeVars, sent>>

\* Time passes.
Tick(d) ==
    /\ bridge # "exited"
    /\ ticks < MaxTicks
    /\ now' = now + d
    /\ ticks' = ticks + 1
    /\ UNCHANGED <<lifeVars, docVars, diagVars, calls, sent>>

\* ------------------------------------------------------- initial states
\* The bridge with every configured client started at startup.
InitStartAll ==
    /\ process = [c \in ClientNames |-> "set"]
    /\ child = [c \in ClientNames |-> "alive"]
    /\ orphans = [c \in ClientNames |-> 0]
    /\ connection = [c \in ClientNames |-> "open"]
    /\ running = [c \in ClientNames |-> TRUE]
    /\ capabilities = [c \in ClientNames |-> "caps"]
    /\ started = [c \in ClientNames |-> TRUE]
    /\ shut = [c \in ClientNames |-> "none"]
    /\ bridge = "serving"
    /\ openDocuments = [c \in ClientNames |-> EmptyMap]
    /\ disk = [f \in Files |-> 0]
    /\ diagnosticsCache = [c \in ClientNames |-> EmptyMap]
    /\ diagnosticsWaiters = [c \in ClientNames |-> EmptyMap]
    /\ lastPublish = [c \in ClientNames |-> EmptyMap]
    /\ now = 0
    /\ ticks = 0
    /\ calls = << >>
    /\ sent = [c \in ClientNames |->
                  <<SpawnEvent, InitializeRequest, InitializedNotification>>]

\* main: the manager is constructed, no client is started; nothing is open,
\* nothing cached.
Init ==
    /\ process = [c \in ClientNames |-> "null"]
    /\ child = [c \in ClientNames |-> "none"]
    /\ orphans = [c \in ClientNames |-> 0]
    /\ connection = [c \in ClientNames |-> "null"]
    /\ running = [c \in ClientNames |-> FALSE]
    /\ capabilities = [c \in ClientNames |-> "null"]
    /\ started = [c \in ClientNames |-> FALSE]
    /\ shut = [c \in ClientNames |-> "none"]
    /\ bridge = "serving"
    /\ openDocuments = [c \in ClientNames |-> EmptyMap]
    /\ disk = [f \in Files |-> 0]
    /\ diagnosticsCache = [c \in ClientNames |-> EmptyMap]
    /\ diagnosticsWaiters = [c \in ClientNames |-> EmptyMap]
    /\ lastPublish = [c \in ClientNames |-> EmptyMap]
    /\ now = 0
    /\ ticks = 0
    /\ calls = << >>
    /\ sent = [c \in ClientNames |-> << >>]

\* The typescript client after a successful start() (spawn, initialize,
\* initialized), the rust client not started.
Handshake == <<SpawnEvent, InitializeRequest, InitializedNotification>>
TsReady ==
    /\ process = [c \in ClientNames |-> IF c = "typescript" THEN "set" ELSE "null"]
    /\ child = [c \in ClientNames |-> IF c = "typescript" THEN "alive" ELSE "none"]
    /\ orphans = [c \in ClientNames |-> 0]
    /\ connection = [c \in ClientNames |-> IF c = "typescript" THEN "open" ELSE "null"]
    /\ running = [c \in ClientNames |-> c = "typescript"]
    /\ capabilities = [c \in ClientNames |-> IF c = "typescript" THEN "caps" ELSE "null"]
    /\ started = [c \in ClientNames |-> c = "typescript"]
    /\ shut = [c \in ClientNames |-> "none"]
    /\ bridge = "serving"
    /\ sent = [c \in ClientNames |-> IF c = "typescript" THEN Handshake ELSE << >>]

\* ------------------------------------------------------------ the bridge
\* The bridge from construction on: find_references calls arrive, peers
\* answer, fail and exit, and a signal shuts the bridge down.
BridgeFiles == {"a.ts", "b.ts", "main.py"}

Next ==
    \/ \E f \in BridgeFiles : CallReady("find_references", f)
    \/ \E f \in BridgeFiles : CallStart("find_references", f)
    \/ \E f \in BridgeFiles : CallNoServer("find_references", f)
    \/ \E i \in 1..MaxCalls : InitializeReply(i)
    \/ \E i \in 1..MaxCalls : HandshakeFailed(i)
    \/ \E i \in 1..MaxCalls : InitializedWritten(i)
    \/ \E i \in 1..MaxCalls : ReadFileDone(i)
    \/ \E i \in 1..MaxCalls : ReadFileError(i)
    \/ \E i \in 1..MaxCalls : EnsureOpenResume(i)
    \/ \E i \in 1..MaxCalls : RequestReply(i)
    \/ \E i \in 1..MaxCalls : RequestRejected(i)
    \/ \E c \in ClientNames : ProcessExit(c)
    \/ Signal
    \/ \E c \in ClientNames : ShutdownReply(c)
    \/ \E c \in ClientNames : ShutdownFailed(c)
    \/ BridgeExit

Spec == Init /\ [][Next]_vars

\* The bridge with the timers of shutdown() firing: a shutdown that awaits
\* its reply does not wait for ever, and main goes on once shutdownAll has
\* settled.
Fairness ==
    /\ \A c \in ClientNames : WF_vars(ShutdownFailed(c))
    /\ WF_vars(BridgeExit)

FairSpec == Spec /\ Fairness

\* The bridge with inputs that may lack parameters.
FileTools == {"find_references", "rename"}

NextDispatch ==
    \/ \E tool \in FileTools : \E input \in Inputs : ToolCall(tool, input)
    \/ \E tool \in Tools \ FileTools : \E input \in Inputs : CallInvalid(tool, input)
    \/ \E i \in 1..MaxCalls : InitializeReply(i)
    \/ \E i \in 1..MaxCalls : HandshakeFailed(i)
    \/ \E i \in 1..MaxCalls : InitializedWritten(i)
    \/ \E i \in 1..MaxCalls : ReadFileDone(i)
    \/ \E i \in 1..MaxCalls : ReadFileError(i)
    \/ \E i \in 1..MaxCalls : EnsureOpenResume(i)
    \/ \E i \in 1..MaxCalls : RequestReply(i)
    \/ \E i \in 1..MaxCalls : RequestRejected(i)
    \/ \E c \in ClientNames : ProcessExit(c)

SpecDispatch == Init /\ [][NextDispatch]_vars

\* Some clients Ready after a completed start(), the others not started.
Serving(R) ==
    /\ process = [c \in ClientNames |-> IF c \in R THEN "set" ELSE "null"]
    /\ child = [c \in ClientNames |-> IF c \in R THEN "alive" ELSE "none"]
    /\ orphans = [c \in ClientNames |-> 0]
    /\ connection = [c \in ClientNames |-> IF c \in R THEN "open" ELSE "null"]
    /\ running = [c \in ClientNames |-> c \in R]
    /\ capabilities = [c \in ClientNames |-> IF c \in R THEN "caps" ELSE "null"]
    /\ started = [c \in ClientNames |-> c \in R]
    /\ shut = [c \in ClientNames |-> "none"]
    /\ bridge = "serving"
    /\ openDocuments = [c \in ClientNames |-> EmptyMap]
    /\ disk = [f \in Files |-> 0]
    /\ diagnosticsCache = [c \in ClientNames |-> EmptyMap]
    /\ diagnosticsWaiters = [c \in ClientNames |-> EmptyMap]
    /\ lastPublish = [c \in ClientNames |-> EmptyMap]
    /\ now = 0
    /\ ticks = 0
    /\ calls = << >>
    /\ sent = [c \in ClientNames |-> IF c \in R THEN Handshake ELSE << >>]

\* Workspace symbol lookup: clients are started by calls on their files,
\* workspace_symbols calls fan out to the clients that are running, the peers
\* answer, reject and exit, and a signal shuts the bridge down.
InitServing == \E R \in SUBSET ClientNames : Serving(R)

SymbolInputs == {[query |-> "A"]}

NextSymbols ==
    \/ \E input \in SymbolInputs : CallSymbols(input)
    \/ \E i \in 1..MaxCalls : \E k \in 1..Len(Servers) : \E answer \in SymbolAnswers :
          SymbolsReply(i, k, answer)
    \/ \E i \in 1..MaxCalls : \E k \in 1..Len(Servers) : SymbolsRejected(i, k)
    \/ \E f \in {"a.ts", "main.rs"} : CallStart("find_references", f)
    \/ \E i \in 1..MaxCalls : InitializeReply(i)
    \/ \E i \in 1..MaxCalls : HandshakeFailed(i)
    \/ \E i \in 1..MaxCalls : InitializedWritten(i)
    \/ \E c \in ClientNames : ProcessExit(c)
    \/ Signal
    \/ \E c \in ClientNames : ShutdownReply(c)
    \/ \E c \in ClientNames : ShutdownFailed(c)
    \/ BridgeExit

SpecSymbols == InitServing /\ [][NextSymbols]_vars

\* Positions and results: the typescript client is Ready; calls with a
\* position arrive on a file it matches, and the peer answers or rejects.
InitFormat == Serving({"typescript"})

PositionInputs ==
    {[file |-> "a.ts", line |-> l, col |-> MaxLine + 1 - l, newName |-> "y"] : l \in 1..MaxLine}

NextFormat ==
    \/ \E input \in PositionInputs : CallAt("find_references", input)
    \/ \E i \in 1..MaxCalls : ReadFileDone(i)
    \/ \E i \in 1..MaxCalls : ReadFileError(i)
    \/ \E i \in 1..MaxCalls : EnsureOpenResume(i)
    \/ \E i \in 1..MaxCalls : \E answer \in LocationAnswers : LocationsReply(i, answer)
    \/ \E i \in 1..MaxCalls : RequestRejected(i)

SpecFormat == InitFormat /\ [][NextFormat]_vars

\* Renames: the typescript client is Ready; rename calls arrive on a file it
\* matches, and the peer answers with a workspace edit, with null, or rejects.
NextRename ==
    \/ \E input \in PositionInputs : CallAt("rename", input)
    \/ \E i \in 1..MaxCalls : ReadFileDone(i)
    \/ \E i \in 1..MaxCalls : ReadFileError(i)
    \/ \E i \in 1..MaxCalls : EnsureOpenResume(i)
    \/ \E i \in 1..MaxCalls : \E answer \in RenameAnswers : RenameReply(i, answer)
    \/ \E i \in 1..MaxCalls : RequestRejected(i)

SpecRename == InitFormat /\ [][NextRename]_vars

\* Extension tools: some clients are Ready, the others not started; calls of
\* the document-shaped extension tools arrive, with or without a file, and
\* the peer answers or rejects.
DocumentExtensionTools ==
    {e.name : e \in {x \in UNION {{GetExtensionsForCommand(c)[k] :
                                        k \in 1..Len(GetExtensionsForCommand(c))} :
                                    c \in ClientNames} : x.params = "textDocument"}}

ExtensionInputs == {[file |-> "a.ts"], [file |-> "b.ts"], [line |-> 1]}

NextExtension ==
    \/ \E toolName \in DocumentExtensionTools : \E input \in ExtensionInputs :
          CallExtension(toolName, input)
    \/ \E i \in 1..MaxCalls : ReadFileDone(i)
    \/ \E i \in 1..MaxCalls : ReadFileError(i)
    \/ \E i \in 1..MaxCalls : EnsureOpenResume(i)
    \/ \E i \in 1..MaxCalls : \E answer \in CustomAnswers : CustomReply(i, answer)
    \/ \E i \in 1..MaxCalls : RequestRejected(i)

SpecExtension == InitServing /\ [][NextExtension]_vars

\* The bridge without a configuration: tools are listed and called, and a
\* signal ends the process.
InitNoConfig ==
    /\ process = [c \in ClientNames |-> "null"]
    /\ child = [c \in ClientNames |-> "none"]
    /\ orphans = [c \in ClientNames |-> 0]
    /\ connection = [c \in ClientNames |-> "null"]
    /\ running = [c \in ClientNames |-> FALSE]
    /\ capabilities = [c \in ClientNames |-> "null"]
    /\ started = [c \in ClientNames |-> FALSE]
    /\ shut = [c \in ClientNames |-> "none"]
    /\ bridge = "unconfigured"
    /\ openDocuments = [c \in ClientNames |-> EmptyMap]
    /\ disk = [f \in Files |-> 0]
    /\ diagnosticsCache = [c \in ClientNames |-> EmptyMap]
    /\ diagnosticsWaiters = [c \in ClientNames |-> EmptyMap]
    /\ lastPublish = [c \in ClientNames |-> EmptyMap]
    /\ now = 0
    /\ ticks = 0
    /\ calls = << >>
    /\ sent = [c \in ClientNames |-> << >>]

CalledTools == Tools \cup {"ts_organize_imports", "no_such_tool"}

NextNoConfig ==
    \/ ListToolsNoConfig
    \/ \E tool \in CalledTools : \E input \in Inputs : CallToolNoConfig(tool, input)
    \/ SignalNoConfig

SpecNoConfig == InitNoConfig /\ [][NextNoConfig]_vars

\* The catalog: the tools are listed while peers start, become Ready and die.
\* main passes no capabilities; the capability objects are those of a peer
\* with no provider, with references and rename only, and with every provider.
CatalogInputs ==
    {UndefinedCapabilities, ServerCapabilities({}),
     ServerCapabilities({"referencesProvider", "renameProvider"}),
     ServerCapabilities(CapabilityKeys)}

NextCatalog ==
    \/ \E caps \in CatalogInputs : ListTools(caps)
    \/ \E f \in {"a.ts", "main.rs"} : CallStart("find_references", f)
    \/ \E i \in 1..Len(calls) : InitializeReply(i)
    \/ \E i \in 1..Len(calls) : HandshakeFailed(i)
    \/ \E i \in 1..Len(calls) : InitializedWritten(i)
    \/ \E c \in ClientNames : ProcessExit(c)

SpecCatalog == Init /\ [][NextCatalog]_vars

\* The manager: tool calls on files of either peer and of none are followed
\* up to the client the manager hands out; the clients start, fail, exit and
\* are shut down.
ManagerFiles == {"a.ts", "main.rs", "main.py"}

NextManager ==
    \/ \E f \in ManagerFiles : CallReady("find_references", f)
    \/ \E f \in ManagerFiles : CallStart("find_references", f)
    \/ \E f \in ManagerFiles : CallNoServer("find_references", f)
    \/ \E i \in 1..MaxCalls : InitializeReply(i)
    \/ \E i \in 1..MaxCalls : HandshakeFailed(i)
    \/ \E i \in 1..MaxCalls : InitializedWritten(i)
    \/ \E c \in ClientNames : ProcessExit(c)
    \/ Signal
    \/ \E c \in ClientNames : ShutdownReply(c)
    \/ \E c \in ClientNames : ShutdownFailed(c)
    \/ BridgeExit

SpecManager == Init /\ [][NextManager]_vars

\* ------------------------------------------- document synchronisation
\* One ready client; open_file tool calls and the notify methods act on the
\* files it matches while the files change on disk.
DocFiles == {f \in Files : Matcher("typescript", f)}
\* The file diagnostics are asked and published for.
DiagFiles == {"a.ts"}

InitDoc ==
    /\ TsReady
    /\ openDocuments = [c \in ClientNames |-> EmptyMap]
    /\ disk = [f \in Files |-> 0]
    /\ diagnosticsCache = [c \in ClientNames |-> EmptyMap]
    /\ diagnosticsWaiters = [c \in ClientNames |-> EmptyMap]
    /\ lastPublish = [c \in ClientNames |-> EmptyMap]
    /\ now = 0
    /\ ticks = 0
    /\ calls = << >>

NextDoc ==
    \/ \E f \in DocFiles : CallReady("open_file", f)
    \/ \E i \in 1..MaxCalls : ReadFileDone(i)
    \/ \E i \in 1..MaxCalls : ReadFileError(i)
    \/ \E i \in 1..MaxCalls : EnsureOpenResume(i)
    \/ \E f \in DocFiles : \E t \in 0..MaxRev :
          Len(sent["typescript"]) < MaxSent /\ t <= disk[f] /\ NotifyChange("typescript", f, t)
    \/ \E f \in DocFiles : Len(sent["typescript"]) < MaxSent /\ NotifySave("typescript", f)
    \/ \E f \in DocFiles : Len(sent["typescript"]) < MaxSent /\ NotifyClose("typescript", f)
    \/ \E f \in DocFiles : FileWrite(f)

SpecDoc == InitDoc /\ [][NextDoc]_vars

\* ------------------------------------------------------------ diagnostics
\* One ready client; diagnostics tool calls on the files it matches, while
\* the peer publishes diagnostics, time passes and documents are closed.
NextDiag ==
    \/ \E f \in DiagFiles : CallReady("diagnostics", f)
    \/ \E i \in 1..MaxCalls : ReadFileDone(i)
    \/ \E i \in 1..MaxCalls : EnsureOpenResume(i)
    \/ \E f \in DiagFiles : \E d \in DiagLists : PublishDiagnostics("typescript", UriOf(f), d)
    \/ \E i \in 1..MaxCalls : Timeout(i)
    \/ \E d \in TickSteps : Tick(d)
    \/ \E f \in DiagFiles : NotifyClose("typescript", f)

SpecDiag == InitDoc /\ [][NextDiag]_vars

\* Closing: one ready client and two of its files; diagnostics are asked and
\* published for both, the file watcher opens the second, and documents are
\* closed, all within the freshness window.
CloseFiles == {"a.ts", "b.ts"}

NextClose ==
    \/ \E f \in CloseFiles : CallReady("diagnostics", f)
    \/ \E i \in 1..MaxCalls : ReadFileDone(i)
    \/ \E i \in 1..MaxCalls : EnsureOpenResume(i)
    \/ \E f \in CloseFiles : PublishDiagnostics("typescript", UriOf(f), <<"e1">>)
    \/ Len(sent["typescript"]) < MaxSent /\ NotifyChange("typescript", "b.ts", 0)
    \/ \E f \in CloseFiles : NotifyClose("typescript", f)

SpecClose == InitDoc /\ [][NextClose]_vars

\* The cache: one ready client; diagnostics are asked for a.ts, published for
\* a.ts and, once and before the clock first advances, for b.ts; waits time
\* out and a.ts is closed.
NextCache ==
    \/ CallReady("diagnostics", "a.ts")
    \/ \E i \in 1..MaxCalls : ReadFileDone(i)
    \/ \E i \in 1..MaxCalls : EnsureOpenResume(i)
    \/ \E d \in DiagLists : PublishDiagnostics("typescript", UriOf("a.ts"), d)
    \/ /\ ~MapHas(diagnosticsCache["typescript"], UriOf("b.ts"))
       /\ ticks = 0
       /\ PublishDiagnostics("typescript", UriOf("b.ts"), <<"e1">>)
    \/ \E i \in 1..MaxCalls : Timeout(i)
    \/ Tick(DIAGNOSTICS_TIMEOUT_MS)
    \/ NotifyClose("typescript", "a.ts")

SpecCache == InitDoc /\ [][NextCache]_vars

\* Edits: one ready client and a.ts; the file is rewritten on disk and the
\* file watcher sends the change while no tool call is pending; diagnostics
\* are asked, and the peer publishes the diagnostics of the text it holds.
\* The diagnostics of a text: as many entries as its revision number.
PeerDiagnostics(text) == [k \in 1..text |-> "e1"]

NextEdit ==
    \/ CallReady("diagnostics", "a.ts")
    \/ \E i \in 1..MaxCalls : ReadFileDone(i)
    \/ \E i \in 1..MaxCalls : EnsureOpenResume(i)
    \/ /\ MapHas(openDocuments["typescript"], UriOf("a.ts"))
       /\ PublishDiagnostics("typescript", UriOf("a.ts"),
              PeerDiagnostics(openDocuments["typescript"][UriOf("a.ts")].content))
    \/ FileWrite("a.ts")
    \/ /\ MapHas(openDocuments["typescript"], UriOf("a.ts"))
       /\ openDocuments["typescript"][UriOf("a.ts")].content # disk["a.ts"]
       /\ \A i \in 1..Len(calls) : calls[i].pc = "done"
       /\ NotifyChange("typescript", "a.ts", disk["a.ts"])
    \/ \E i \in 1..MaxCalls : Timeout(i)
    \/ \E d \in TickSteps : Tick(d)

SpecEdit == InitDoc /\ [][NextEdit]_vars

\* Diagnostics of all files: one ready client; a.ts is opened by diagnostics
\* calls and closed, the peer publishes for a.ts and b.ts and may die, and
\* diagnostics are asked without a file.
NextAll ==
    \/ CallReady("diagnostics", "a.ts")
    \/ \E i \in 1..MaxCalls : ReadFileDone(i)
    \/ \E i \in 1..MaxCalls : EnsureOpenResume(i)
    \/ \E f \in {"a.ts", "b.ts"} : \E d \in DiagLists :
          PublishDiagnostics("typescript", UriOf(f), d)
    \/ CallDiagnosticsAll
    \/ NotifyClose("typescript", "a.ts")
    \/ ProcessExit("typescript")

SpecAll == InitDoc /\ [][NextAll]_vars

\* Saving and closing: one ready client; the file watcher reports a change
\* of a.ts when its text on disk differs from the recorded one (or a.ts is
\* not open), a save after a change, and removals; b.ts is saved and removed
\* but never opened; diagnostics are asked for a.ts while it is open, and
\* published for it.
NextSave ==
    \/ MapHas(openDocuments["typescript"], UriOf("a.ts")) /\ CallReady("diagnostics", "a.ts")
    \/ PublishDiagnostics("typescript", UriOf("a.ts"), <<"e1">>)
    \/ FileWrite("a.ts")
    \/ /\ Len(sent["typescript"]) < Len(Handshake) + MaxSent
       /\ MapHas(openDocuments["typescript"], UriOf("a.ts")) =>
             openDocuments["typescript"][UriOf("a.ts")].content # disk["a.ts"]
       /\ NotifyChange("typescript", "a.ts", disk["a.ts"])
    \/ \E f \in {"a.ts", "b.ts"} :
          /\ MapHas(openDocuments["typescript"], UriOf(f)) =>
                sent["typescript"][Len(sent["typescript"])].type \in {"didOpen", "didChange"}
          /\ NotifySave("typescript", f)
    \/ \E f \in {"a.ts", "b.ts"} : NotifyClose("typescript", f)

SpecSave == InitDoc /\ [][NextSave]_vars

\* Coordinates: the typescript client is Ready; find_references calls arrive
\* on a file it matches with lines and columns that validation accepts, zero
\* and negative ones among them.
CoordInputs ==
    {[file |-> "a.ts", line |-> l, col |-> k] : l \in {-1, 0, 1}, k \in {0, 1}}

NextCoords ==
    \/ \E input \in CoordInputs : CallAt("find_references", input)
    \/ \E i \in 1..MaxCalls : ReadFileDone(i)
    \/ \E i \in 1..MaxCalls : ReadFileError(i)
    \/ \E i \in 1..MaxCalls : EnsureOpenResume(i)
    \/ \E i \in 1..MaxCalls : LocationsReply(i, ListAnswer(<< >>))
    \/ \E i \in 1..MaxCalls : RequestRejected(i)

SpecCoords == InitFormat /\ [][NextCoords]_vars

\* ------------------------------------------------------------- claims
Max(S) == CHOOSE x \in S : \A y \in S : x >= y

IsVersioned(m) == m.type \in {"didOpen", "didChange"}

\* The versions carried by the didOpen and didChange notifications for uri in
\* a message log, from the last didClose for uri on.
VersionsSent(log, uri) ==
    LET closes == {k \in 1..Len(log) : log[k].type = "didClose" /\ log[k].uri = uri}
        from == IF closes = {} THEN 1 ELSE Max(closes) + 1
        rest == SubSeq(log, from, Len(log))
        sel == SelectSeq(rest, LAMBDA m : IsVersioned(m) /\ m.uri = uri)
    IN  [k \in 1..Len(sel) |-> sel[k].version]

\* C1: for every client and URI, the versions carried by the didOpen and
\* didChange notifications sent since the last close are 1, 2, 3, ... in
\* this order, none repeated.
C1_VersionsCountUp ==
    \A c \in ClientNames : \A uri \in Uris :
        LET vs == VersionsSent(sent[c], uri)
        IN  vs = [k \in 1..Len(vs) |-> k]

Range(seq) == {seq[k] : k \in 1..Len(seq)}

CacheEntry(c, uri) ==
    IF MapHas(diagnosticsCache[c], uri) THEN diagnosticsCache[c][uri] ELSE NoEntry

WaitersOf(c, uri) ==
    IF MapHas(diagnosticsWaiters[c], uri) THEN diagnosticsWaiters[c][uri] ELSE << >>

\* Call i is a pending waitForDiagnostics(uri) on client c.
PendingWait(i, c, uri) ==
    /\ i \in 1..Len(calls)
    /\ calls[i].pc = "waiting"
    /\ calls[i].client = c
    /\ UriOf(calls[i].file) = uri

\* C2: a publishDiagnostics for a URI completes every pending waiter for that
\* URI with the published list, and right after it no waiter is registered
\* for the URI.
C2_PublishCompletesWaiters ==
    [][\A c \in ClientNames : \A uri \in Uris :
          (/\ MapHas(diagnosticsCache'[c], uri)
           /\ PublishDiagnostics(c, uri, diagnosticsCache'[c][uri].diagnostics)) =>
              /\ \A i \in 1..MaxCalls :
                    PendingWait(i, c, uri) =>
                        /\ calls'[i].pc = "done"
                        /\ calls'[i].result = "ok"
                        /\ calls'[i].diags = diagnosticsCache'[c][uri].diagnostics
              /\ ~MapHas(diagnosticsWaiters'[c], uri)]_vars

\* Two waits on one URI were completed by a publish, and none is registered.
C2_Witness ==
    \E i, j \in 1..Len(calls) :
        /\ i < j
        /\ calls[i].file = calls[j].file
        /\ calls[i].via = "publish" /\ calls[j].via = "publish"
        /\ calls[i].diags = <<"e1">> /\ calls[j].diags = <<"e1">>
        /\ WaitersOf(calls[i].client, UriOf(calls[i].file)) = << >>

\* C3: the waiter table holds no entry of a call that has resolved: every
\* registered waiter belongs to a wait that is still pending.
C3_NoResolvedWaiterRegistered ==
    \A c \in ClientNames : \A uri \in Uris :
        \A w \in Range(WaitersOf(c, uri)) : PendingWait(w.call, c, uri)

\* C4: a wait that times out resolves with the list the cache holds for the
\* URI when the timer fires, and with the empty list when it holds none.
C4_TimeoutReturnsCurrentCache ==
    [][\A i \in 1..MaxCalls :
          Timeout(i) =>
              LET e == CacheEntry(calls[i].client, UriOf(calls[i].file))
              IN  calls'[i].diags = IF e.present THEN e.diagnostics ELSE << >>]_vars

\* Call i enters waitForDiagnostics in this step: it is received with its
\* document open, or its ensureOpen resumes.
WaitInvoked(i) ==
    /\ i \in 1..Len(calls')
    /\ calls'[i].tool = "diagnostics"
    /\ calls'[i].pc \in {"waiting", "done"}
    /\ calls'[i].result # "error"
    /\ i \in 1..Len(calls) => calls[i].pc = "read"

\* What C5 says of a wait: on a hit the call returns the entry's list at once
\* and registers neither waiter nor timer, otherwise it registers a waiter.
WaitOutcome(i, hit, entry) ==
    LET c == calls'[i].client
        uri == UriOf(calls'[i].file)
    IN  IF hit
        THEN /\ calls'[i].pc = "done"
             /\ calls'[i].result = "ok"
             /\ calls'[i].diags = entry.diagnostics
             /\ diagnosticsWaiters' = diagnosticsWaiters
        ELSE /\ calls'[i].pc = "waiting"
             /\ MapHas(diagnosticsWaiters'[c], uri)
             /\ WrappedResolve(i) \in Range(diagnosticsWaiters'[c][uri])
             /\ Len(diagnosticsWaiters'[c][uri]) = Len(WaitersOf(c, uri)) + 1

LastPublished(c, uri) ==
    IF MapHas(lastPublish[c], uri) THEN lastPublish[c][uri] ELSE NoEntry

\* C5 as stated: a wait called less than 500 ms after a publishDiagnostics for
\* the URI was received returns the published list at once; any other wait
\* registers a waiter.
C5_FreshAfterPublish ==
    [][\A i \in 1..MaxCalls :
          WaitInvoked(i) =>
              LET p == LastPublished(calls'[i].client, UriOf(calls'[i].file))
              IN  WaitOutcome(i, p.present /\ now - p.timestamp < DIAGNOSTICS_FRESHNESS_MS, p)]_vars

\* C5 amended: a wait called while the cache holds an entry for the URI that
\* is less than 500 ms old returns that entry's list at once and registers
\* neither waiter nor timer; with no entry, or an entry 500 ms old or older,
\* it registers a waiter.
C5_FreshCacheEntry ==
    [][\A i \in 1..MaxCalls :
          WaitInvoked(i) =>
              LET e == CacheEntry(calls'[i].client, UriOf(calls'[i].file))
              IN  WaitOutcome(i, e.present /\ now - e.timestamp < DIAGNOSTICS_FRESHNESS_MS, e)]_vars

\* One wait returned a fresh entry's list at once; another, called when the
\* entry was exactly 500 ms old, is registered and pending.
C5_Witness ==
    \E i, j \in 1..Len(calls) :
        /\ calls[i].via = "fresh" /\ calls[i].diags = <<"e1">>
        /\ calls[j].pc = "waiting"
        /\ calls[j].cached.present
        /\ calls[j].deadline - DIAGNOSTICS_TIMEOUT_MS - calls[j].cached.timestamp
              = DIAGNOSTICS_FRESHNESS_MS

\* ------------------------------------------------------------ lifecycle
Count(log, type) == Cardinality({k \in 1..Len(log) : log[k].type = type})

\* C6: a client has at most one subprocess, and it is spawned and sent
\* initialize at most once, also when a second tool call for the same peer
\* arrives while the first is still starting it.
C6_OneSpawnPerClient ==
    \A c \in ClientNames :
        /\ orphans[c] = 0
        /\ Count(sent[c], "spawn") <= 1
        /\ Count(sent[c], "initialize") <= 1

\* Two tool calls for files of the typescript peer, the second arriving
\* while the first awaits the initialize reply; one spawn, one initialize.
C6_Witness ==
    /\ Len(calls) = 2
    /\ calls[1].client = "typescript" /\ calls[1].pc = "awaitInitialize"
    /\ Matcher("typescript", calls[2].file)
    /\ Count(sent["typescript"], "spawn") = 1
    /\ Count(sent["typescript"], "initialize") = 1

IsFeatureRequest(m) == m.type \in {"references", "rename", "workspaceSymbol"}

RequestsSent(log) == Cardinality({k \in 1..Len(log) : IsFeatureRequest(log[k])})

\* C7: a step that sends a feature request to a client leaves that client
\* running; no request goes to a client that is not Ready.
C7_RequestsOnlyWhenReady ==
    [][\A c \in ClientNames :
          RequestsSent(sent'[c]) > RequestsSent(sent[c]) => running'[c]]_vars

IsPrefix(a, b) == Len(a) <= Len(b) /\ SubSeq(b, 1, Len(a)) = a

\* C8: what a client is sent begins with spawn, initialize, initialized in
\* this order, and every feature request comes after a didOpen of its
\* document, which comes after the three.
C8_StartOrder ==
    \A c \in ClientNames :
        /\ IsPrefix(sent[c], Handshake) \/ IsPrefix(Handshake, sent[c])
        /\ \A k \in 1..Len(sent[c]) :
              IsFeatureRequest(sent[c][k]) =>
                 \E j \in (Len(Handshake) + 1)..(k - 1) :
                    sent[c][j].type = "didOpen" /\ sent[c][j].uri = sent[c][k].uri

\* The first tool call on the typescript peer has been through: spawn,
\* initialize, initialized, didOpen, references.
C8_Witness ==
    /\ Len(sent["typescript"]) = Len(Handshake) + 2
    /\ sent["typescript"][Len(Handshake) + 1].type = "didOpen"
    /\ sent["typescript"][Len(Handshake) + 2].type = "references"

\* A client that was started and whose subprocess has exited or been
\* discarded.
Dead(c) == started[c] /\ (child[c] = "exited" \/ process[c] = "null")

\* The client a file belongs to.
Owner(f) ==
    LET ks == {k \in 1..Len(Servers) : Matcher(Servers[k], f)}
    IN  IF ks = {} THEN NoClient ELSE Servers[Min(ks)]

\* C9: a Dead client is not spawned again, and a tool call that arrives for
\* a file of a Dead client fails with 'No LSP server configured for file'.
C9_DeadStaysDead ==
    [][\A c \in ClientNames :
          Dead(c) =>
             /\ Count(sent'[c], "spawn") = Count(sent[c], "spawn")
             /\ (Len(calls') = Len(calls) + 1 /\ Owner(calls'[Len(calls')].file) = c)
                   => (calls'[Len(calls')].result = "error"
                       /\ calls'[Len(calls')].error = ErrNoServer)]_vars

\* C10: a client whose subprocess has been seen to exit is not running.
C10_NoReadyAfterExit ==
    \A c \in ClientNames : child[c] = "exited" => ~running[c]

\* A subprocess has been spawned for client c.
Spawned(c) == child[c] # "none" \/ process[c] = "set" \/ Count(sent[c], "spawn") > 0

C12_HandleAlwaysReturnsResult ==
    \A i \in 1..Len(calls) :
        LET r == calls[i].response IN
        IF calls[i].pc = "done"
        THEN /\ calls[i].result \in {"ok", "error"}
             /\ "content" \in DOMAIN r
             /\ DOMAIN r \subseteq {"content", "isError"}
             /\ Len(r.content) = 1
             /\ r.content[1].type = "text"
             /\ calls[i].result = "error" =>
                   /\ "isError" \in DOMAIN r
                   /\ r.isError = TRUE
                   /\ r.content[1].text = JsonError(calls[i].error)
             /\ calls[i].result = "ok" => "isError" \notin DOMAIN r
        ELSE r = NoResponse

\* One call was served, a later one failed because the peer rejected its
\* request.
C12_Witness ==
    \E i, j \in 1..Len(calls) :
        /\ i < j
        /\ calls[i].result = "ok"
        /\ calls[j].result = "error" /\ calls[j].error = ErrRequest

\* The parameters the tools require.
Required(tool) ==
    CASE tool = "open_file" -> {"file"}
      [] tool = "find_references" -> {"file", "line", "col"}
      [] tool = "rename" -> {"file", "line", "col", "newName"}
      [] tool = "workspace_symbols" -> {"query"}
      [] OTHER -> {}

Lacking(tool, input) ==
    {k \in Required(tool) : ~Has(input, k) \/ (k \in {"file", "newName", "query"} /\ input[k] = "")}

C14_RejectionLeavesClient ==
    [][\A i \in 1..MaxCalls :
          (RequestRejected(i) /\ running[calls[i].client]) =>
              /\ calls'[i].response = ErrorResult(ErrRequest)
              /\ running'[calls[i].client]
              /\ UNCHANGED <<process, child, connection, capabilities, started,
                             openDocuments, diagnosticsCache, sent>>
              /\ \A j \in 1..Len(calls) : j # i => calls'[j] = calls[j]]_vars

\* The peer has rejected the request of one call; a call that arrived later
\* was given the same client, which is Ready, and was served.
C14_Witness ==
    \E i, j \in 1..Len(calls) :
        /\ i < j
        /\ calls[i].error = ErrRequest
        /\ calls[j].client = calls[i].client
        /\ calls[j].result = "ok"
        /\ running[calls[i].client]

\* The start() of client c failed at the initialize request: the call that
\* started it has ended in an error and no capabilities were ever stored.
InitializeFailed(c) ==
    /\ capabilities[c] = "null"
    /\ \E i \in 1..Len(calls) :
          /\ calls[i].client = c
          /\ calls[i].pc = "done"
          /\ calls[i].response = ErrorResult(ErrNoServer)

\* C15: once the initialize request of start() has failed, the start has
\* ended in an error, the client is not Ready, its connection is disposed
\* and its subprocess killed, and the peer has been sent neither initialized
\* nor any feature request.
C15_InitializeFailureKills ==
    \A c \in ClientNames :
        InitializeFailed(c) =>
            /\ ~running[c]
            /\ connection[c] = "null"
            /\ process[c] = "null"
            /\ child[c] \in {"killed", "exited"}
            /\ Count(sent[c], "initialized") = 0
            /\ RequestsSent(sent[c]) = 0

\* The initialize request of the typescript client has failed while its
\* subprocess was alive, and a later call for one of its files has arrived.
C15_Witness ==
    /\ InitializeFailed("typescript")
    /\ child["typescript"] = "killed"
    /\ Len(calls) = 2
    /\ calls[1].client = "typescript"
    /\ Owner(calls[2].file) = "typescript"

\* C16: shutdown() always terminates, and so does shutdownAll: once a signal
\* has begun the shutdown, the shutdown() of every client eventually
\* completes, whether or not its peer answers the shutdown request.
C16_ShutdownCompletes ==
    (bridge = "shuttingDown") ~> (\A c \in ClientNames : shut[c] = "done")

\* The shutdown of a Ready client has completed without the peer's answer:
\* the shutdown request was sent, exit never was, and the subprocess was
\* killed.
C16_Witness ==
    \E c \in ClientNames :
        /\ shut[c] = "done"
        /\ Count(sent[c], "shutdown") = 1
        /\ Count(sent[c], "exit") = 0
        /\ process[c] = "null"
        /\ child[c] = "killed"

\* C17: once the shutdown() of a client has completed, the client is not
\* Ready, its connection is disposed and it has no subprocess, and this
\* stays so, whatever state the client was in when shutdown() was called.
C17_ShutdownIsFinal ==
    \A c \in ClientNames :
        shut[c] = "done" =>
            /\ ~running[c]
            /\ connection[c] = "null"
            /\ process[c] = "null"

ConfigIndex(c) == CHOOSE k \in 1..Len(Servers) : Servers[k] = c

C19_LookupFirstReadyMatch ==
    /\ \A match \in MatcherTables : \A f \in Files :
          LET r == GetClientForFileIn(match, f)
              Serves(c) == running[c] /\ f \in match[c]
          IN  IF \E c \in ClientNames : Serves(c)
              THEN /\ r \in ClientNames
                   /\ Serves(r)
                   /\ \A j \in 1..(ConfigIndex(r) - 1) : ~Serves(Servers[j])
              ELSE r = NoClient
    /\ \A f \in Files : GetClientForFile(f) # NoClient =>
          running[GetClientForFile(f)] /\ Matcher(GetClientForFile(f), f)
    /\ LET all == GetAllClients IN
          /\ {all[k] : k \in 1..Len(all)} = {c \in ClientNames : running[c]}
          /\ \A j, k \in 1..Len(all) : j < k => ConfigIndex(all[j]) < ConfigIndex(all[k])

\* Both clients are Ready; under matchers with which both accept a.ts the
\* lookup of a.ts gives the first configured one, and a path nobody accepts
\* gives null; getAllClients lists both.
C19_Witness ==
    /\ \A c \in ClientNames : running[c]
    /\ GetClientForFileIn([c \in ClientNames |-> {"a.ts"}], "a.ts") = Servers[1]
    /\ GetClientForFile("main.rs") = "rust"
    /\ GetClientForFile("main.py") = NoClient
    /\ GetAllClients = Servers

\* C20: a tool call reaches its client through ensureClientForFile. When a
\* Ready client matches the file, the call gets that client and start() is
\* called on no client. Otherwise start() is called on at most one client,
\* one whose matcher accepts the file, and the call gets it. When no
\* client's matcher accepts the file the call gets null and no client is
\* started.
StartedBy(c) ==
    \/ Count(sent'[c], "spawn") > Count(sent[c], "spawn")
    \/ started'[c] /\ ~started[c]

C20_EnsureStartsAtMostOneMatch ==
    [][Len(calls') = Len(calls) + 1 =>
          LET call == calls'[Len(calls')]
              f == call.file
              ready == GetClientForFile(f)
              startedNow == {c \in ClientNames : StartedBy(c)}
          IN  /\ ready # NoClient => call.client = ready /\ startedNow = {}
              /\ Cardinality(startedNow) <= 1
              /\ \A c \in startedNow : Matcher(c, f) /\ call.client = c
              /\ (\A c \in ClientNames : ~Matcher(c, f)) =>
                    /\ call.client = NoClient
                    /\ call.response = ErrorResult(ErrNoServer)
                    /\ startedNow = {}]_vars

\* Two tool calls on a.ts have been received: the first started the
\* typescript client, the second got it Ready without another start; the rust
\* client, which does not match, was not started.
C20_Witness ==
    /\ Len(calls) = 2
    /\ \A i \in 1..2 : calls[i].file = "a.ts" /\ calls[i].client = "typescript"
    /\ Count(sent["typescript"], "spawn") = 1
    /\ \A c \in ClientNames \ {"typescript"} : ~started[c] /\ Count(sent[c], "spawn") = 0

RECURSIVE SeqSum(_)
SeqSum(ns) == IF ns = << >> THEN 0 ELSE ns[1] + SeqSum(Tail(ns))

\* C21: a workspace_symbols call with a query sends the query to every Ready
\* client, and to no other.
C21_QueryToEveryReadyClient ==
    [][(Len(calls') = Len(calls) + 1 /\ calls'[Len(calls')].tool = "workspace_symbols") =>
          \A c \in ClientNames :
             sent'[c] = IF running[c]
                        THEN Append(sent[c], WorkspaceSymbolRequest(Len(calls')))
                        ELSE sent[c]]_vars

\* C21: a workspace_symbols call that has ended is not an error, whatever
\* the peers did; its result is the concatenation, in the order of the
\* clients, of the normalized symbols of the peers that answered.
C21_SymbolsOfThePeersThatAnswered ==
    \A i \in 1..Len(calls) :
        (calls[i].tool = "workspace_symbols" /\ calls[i].pc = "done") =>
            /\ calls[i].result = "ok"
            /\ "isError" \notin DOMAIN calls[i].response
            /\ \A k \in 1..Len(calls[i].fan) : calls[i].fan[k].state # "pending"
            /\ LET answered == SelectSeq(calls[i].fan,
                                         LAMBDA p : p.state = "fulfilled" /\ ~p.value.null)
                   sizes == [k \in 1..Len(answered) |-> Len(answered[k].value.items)]
               IN  /\ Len(calls[i].diags) = SeqSum(sizes)
                   /\ \A k \in 1..Len(answered) : \A n \in 1..sizes[k] :
                         LET out == calls[i].diags[SeqSum(SubSeq(sizes, 1, k - 1)) + n]
                             sym == answered[k].value.items[n]
                         IN  /\ out.name = sym.name
                             /\ ("location" \in DOMAIN sym) =>
                                   /\ UriOf(out.file) = sym.location.uri
                                   /\ out.line = sym.location.line + 1
                                   /\ out.col = sym.location.character + 1

\* C22: position conversion is a round trip. The position a request is sent
\* with is the position of the tool input less 1 in line and column; every
\* location of a result is the location the peer answered with plus 1 in line
\* and column; and a location the peer gives at the position it was asked
\* about comes back as the line and column of the tool input.
HasPosition(call) ==
    /\ call.tool \in {"find_references", "rename"}
    /\ call.pc = "awaitReply" \/ (call.pc = "done" /\ call.result = "ok")

C22_PositionRoundTrip ==
    \A i \in 1..Len(calls) :
        LET call == calls[i] IN
        HasPosition(call) =>
            /\ call.position.line = call.line - 1
            /\ call.position.character = call.col - 1
            /\ LET back == FormatLocation(Location(call.file, call.position.line,
                                                   call.position.character))
               IN  back.line = call.line /\ back.col = call.col
            /\ (call.tool = "find_references" /\ call.pc = "done") =>
                  /\ Len(call.diags) = Len(call.answer.items)
                  /\ \A k \in 1..Len(call.diags) :
                        /\ call.diags[k].line = call.answer.items[k].line + 1
                        /\ call.diags[k].col = call.answer.items[k].character + 1

\* A find_references call at line 2, column 1 was sent at line 1, character
\* 0; the peer answered with the location at that position, and the result
\* has line 2, column 1.
C22_Witness ==
    \E i \in 1..Len(calls) :
        /\ calls[i].tool = "find_references" /\ calls[i].pc = "done"
        /\ calls[i].line = 2 /\ calls[i].col = 1
        /\ calls[i].position = [line |-> 1, character |-> 0]
        /\ calls[i].answer = ListAnswer(<<Location("a.ts", 1, 0)>>)
        /\ calls[i].diags = <<[file |-> "a.ts", line |-> 2, col |-> 1]>>

\* The text edits a workspace edit carries in documentChanges, as a changes
\* map: per document, in the order of first occurrence, all its edits in
\* order.
RECURSIVE AsChanges(_, _)
AsChanges(entries, members) ==
    IF members = << >> THEN entries
    ELSE LET d == members[1]
             known == \E k \in 1..Len(entries) : entries[k].uri = d.textDocument.uri
         IN  AsChanges(
                 IF known
                 THEN [k \in 1..Len(entries) |->
                          IF entries[k].uri = d.textDocument.uri
                          THEN [entries[k] EXCEPT !.edits = @ \o d.edits]
                          ELSE entries[k]]
                 ELSE Append(entries, [uri |-> d.textDocument.uri, edits |-> d.edits]),
                 Tail(members))

OnlyTextDocumentEdits(members) ==
    \A k \in 1..Len(members) : {"textDocument", "edits"} \subseteq DOMAIN members[k]

Renamed(call) == call.tool = "rename" /\ call.pc = "done" /\ call.result = "ok" /\ ~call.answer.null

\* C23: the result of a rename whose workspace edit carries its text edits
\* only in documentChanges is the result of the edit that carries the same
\* text edits only in changes, and every coordinate of a result is the wire
\* coordinate plus 1.
C23_EitherFormSameOutput ==
    \A i \in 1..Len(calls) :
        LET edit == calls[i].answer.edit IN
        Renamed(calls[i]) =>
            /\ (DOMAIN edit = {"documentChanges"} /\ OnlyTextDocumentEdits(edit.documentChanges)) =>
                  calls[i].diags =
                      FormatWorkspaceEdit(ChangesOnly(AsChanges(<< >>, edit.documentChanges)))
            /\ DOMAIN edit = {"changes"} =>
                  /\ Len(calls[i].diags) = Len(edit.changes)
                  /\ \A k \in 1..Len(edit.changes) :
                        /\ UriOf(calls[i].diags[k].file) = edit.changes[k].uri
                        /\ Len(calls[i].diags[k].edits) = Len(edit.changes[k].edits)
                        /\ \A n \in 1..Len(edit.changes[k].edits) :
                              LET out == calls[i].diags[k].edits[n]
                                  e == edit.changes[k].edits[n]
                              IN  /\ out.newText = e.newText
                                  /\ out.range.start.line = e.range.start.line + 1
                                  /\ out.range.start.col = e.range.start.character + 1
                                  /\ out.range.end.line = e.range.end.line + 1
                                  /\ out.range.end.col = e.range.end.character + 1

\* C24: the result of a rename whose workspace edit has both changes and
\* documentChanges is the result of its documentChanges alone.
C24_DocumentChangesPreferred ==
    \A i \in 1..Len(calls) :
        LET edit == calls[i].answer.edit IN
        (Renamed(calls[i]) /\ DOMAIN edit = {"changes", "documentChanges"}) =>
            calls[i].diags = FormatWorkspaceEdit(DocumentChangesOnly(edit.documentChanges))

\* C25: a call of a document-shaped extension tool with a file of the peer
\* that declares it, when that peer is not yet started or Ready, is taken to
\* that peer: it does not fail, and it goes on to open the document and to
\* send the extension's method.
C25_ExtensionCallReachesPeer ==
    [][Len(calls') = Len(calls) + 1 =>
          LET call == calls'[Len(calls')] IN
          \A c \in ClientNames :
             (/\ Declares(c, call.tool)
              /\ ExtensionOf(c, call.tool).params = "textDocument"
              /\ Matcher(c, call.file)
              /\ ~started[c] \/ running[c]) =>
                 /\ call.client = c
                 /\ call.result # "error"
                 /\ call.pc \in {"reading", "awaitReply"}]_vars

\* An extension call that was answered has sent didOpen for the uri and then
\* the extension's method with that uri, to the client that declares the
\* tool, and its result is the peer's answer.
DidOpenThenMethod ==
    \A i \in 1..Len(calls) :
        (IsExtensionTool(calls[i].tool) /\ calls[i].pc = "done" /\ calls[i].result = "ok") =>
            LET log == sent[calls[i].client]
                uri == UriOf(calls[i].file)
            IN  /\ Declares(calls[i].client, calls[i].tool)
                /\ calls[i].diags = calls[i].answer.items
                /\ calls[i].response = OkResult(JsonArray(calls[i].answer.items))
                /\ \E n \in 1..Len(log) :
                      /\ log[n] = CustomRequest(MethodOf(calls[i].tool), uri, i)
                      /\ \E k \in 1..(n - 1) : log[k].type = "didOpen" /\ log[k].uri = uri

\* C25, for a Ready peer only: a call of a document-shaped extension tool
\* with a file is taken to the first Ready client that declares the tool and
\* goes on to open the document and to send the extension's method with the
\* uri, after a didOpen for it; its result is the peer's answer as it is.
\* While no Ready client declares the tool, a peer not yet started included,
\* the call is an Unknown tool error; no client is started and nothing is
\* sent.
C25_ReadyPeerServesExtension ==
    /\ []DidOpenThenMethod
    /\ [][(Len(calls') = Len(calls) + 1 /\ IsExtensionTool(calls'[Len(calls')].tool)) =>
             LET call == calls'[Len(calls')]
                 ready == {c \in ClientNames : running[c] /\ Declares(c, call.tool)}
             IN  /\ (ready # {} /\ call.file # "") =>
                       /\ call.client \in ready
                       /\ call.result # "error"
                       /\ call.pc \in {"reading", "awaitReply"}
                       /\ call.pc = "awaitReply" =>
                             sent'[call.client] =
                                Append(sent[call.client],
                                       CustomRequest(MethodOf(call.tool), UriOf(call.file),
                                                     Len(calls')))
                 /\ ready = {} =>
                       /\ call.response = ErrorResult(ErrUnknownTool(call.tool))
                       /\ UNCHANGED <<lifeVars, docVars, sent>>]_vars

\* An extension call on a.ts was answered by the typescript peer: didOpen and
\* then _typescript.organizeImports were sent, and the result is the answer.
C25_Witness ==
    \E i \in 1..Len(calls) :
        /\ calls[i].tool = "ts_organize_imports" /\ calls[i].file = "a.ts"
        /\ calls[i].pc = "done" /\ calls[i].diags = <<"organized">>
        /\ \E k, n \in 1..Len(sent["typescript"]) :
              /\ k < n
              /\ sent["typescript"][k].type = "didOpen"
              /\ sent["typescript"][n] =
                    CustomRequest("_typescript.organizeImports", UriOf("a.ts"), i)

\* C26: with no configuration the bridge serves MCP all the same. Every
\* listTools is answered with the empty tool list, every callTool with an
\* isError result of one explanatory text, and no peer is spawned or sent
\* anything.
C26_NoConfigStillServes ==
    /\ \A i \in 1..Len(calls) :
          /\ calls[i].pc = "done"
          /\ IF calls[i].tool = "tools/list"
             THEN calls[i].response = ListToolsResult(<< >>)
             ELSE /\ DOMAIN calls[i].response = {"content", "isError"}
                  /\ calls[i].response.isError = TRUE
                  /\ Len(calls[i].response.content) = 1
                  /\ calls[i].response.content[1].type = "text"
                  /\ calls[i].response.content[1].text = NoConfigText
    /\ \A c \in ClientNames : ~Spawned(c) /\ ~started[c] /\ sent[c] = << >>

\* Without a configuration the tools were listed and then rename was called.
C26_Witness ==
    /\ Len(calls) = 2
    /\ calls[1].tool = "tools/list" /\ calls[1].response = ListToolsResult(<< >>)
    /\ calls[2].tool = "rename" /\ calls[2].response.isError = TRUE
    /\ \A c \in ClientNames : ~Spawned(c)

StandardTools ==
    {"goto_definition", "goto_type_definition", "goto_implementation", "goto_declaration",
     "find_references", "hover", "signature_help", "document_symbols", "workspace_symbols",
     "code_actions", "rename_prepare", "rename", "call_hierarchy_incoming",
     "call_hierarchy_outgoing", "type_hierarchy", "open_file", "diagnostics"}

\* C27: with a configuration the advertised tool list contains all 17
\* standard tools in every state, whichever peers have started and whatever
\* capabilities were reported.
C27_AllStandardToolsAdvertised ==
    \A i \in 1..Len(calls) :
        calls[i].tool = "tools/list" =>
            /\ calls[i].result = "ok"
            /\ StandardTools \subseteq Range(calls[i].response.tools)

\* The list built from the capabilities of a peer with every provider holds
\* the 17 standard tools and no other.
C27_EveryProviderEveryTool ==
    /\ Range(BuildToolDefinitions(ServerCapabilities(CapabilityKeys)).tools) = StandardTools
    /\ Len(BuildToolDefinitions(ServerCapabilities(CapabilityKeys)).tools) = 17

\* The last didOpen or didClose sent to c for uri: its type, or "none".
LastOpenOrClose(c, uri) ==
    LET ks == {k \in 1..Len(sent[c]) :
                  sent[c][k].type \in {"didOpen", "didClose"} /\ sent[c][k].uri = uri}
    IN  IF ks = {} THEN "none" ELSE sent[c][Max(ks)].type

\* C29: in every reachable state each URI in a client's open-document table
\* has had a didOpen sent to the peer with no didClose since, and each URI
\* absent from it has no outstanding didOpen.
C29_TableMatchesAnnouncements ==
    \A c \in ClientNames : \A f \in Files :
        MapHas(openDocuments[c], UriOf(f)) <=> LastOpenOrClose(c, UriOf(f)) = "didOpen"

\* Every didChange and didSave sent for a URI comes after a didOpen for it
\* with no didClose in between.
ChangesWhileOpen ==
    \A c \in ClientNames : \A k \in 1..Len(sent[c]) :
        sent[c][k].type \in {"didChange", "didSave"} =>
            LET ks == {j \in 1..(k - 1) :
                          /\ sent[c][j].type \in {"didOpen", "didClose"}
                          /\ sent[c][j].uri = sent[c][k].uri}
            IN  ks # {} /\ sent[c][Max(ks)].type = "didOpen"

\* Call i is the only tool call that went into ensureOpen for its document.
OnlyEnsureOpen(i) ==
    \A j \in 1..Len(calls) :
        j # i => calls[j].client # calls[i].client \/ calls[j].file # calls[i].file

\* The resumed ensureOpen of call i sends its didOpen in this step.
SendsDidOpen(i) ==
    /\ calls[i].pc = "read"
    /\ calls'[i].pc # "read"
    /\ Len(sent'[calls[i].client]) = Len(sent[calls[i].client]) + 1
    /\ sent'[calls[i].client][Len(sent'[calls[i].client])].type = "didOpen"

\* C28: for a single document on one client the notifications reach the peer
\* in the order of the ensureOpen, notifyChange, notifySave and notifyClose
\* calls, and no didChange or didSave is sent before the didOpen or after the
\* didClose. For the order: when the only ensureOpen call on a document sends
\* its didOpen, no notifyChange made after that call has opened the document
\* already.
C28_NotificationsInCallOrder ==
    /\ []ChangesWhileOpen
    /\ [][\A i \in 1..Len(calls) :
              (OnlyEnsureOpen(i) /\ SendsDidOpen(i)) =>
                  ~MapHas(openDocuments[calls[i].client], UriOf(calls[i].file))]_vars

\* The entries of every URI but uri are the same in m and n.
SameElsewhere(m, n, uri) ==
    \A f \in Files :
        UriOf(f) # uri =>
            /\ MapHas(m, UriOf(f)) <=> MapHas(n, UriOf(f))
            /\ MapHas(m, UriOf(f)) => m[UriOf(f)] = n[UriOf(f)]

\* Call i returns a fresh cache hit in this step.
FreshHit(i) ==
    /\ calls'[i].via = "fresh"
    /\ i > Len(calls) \/ calls[i].via # "fresh"

\* C30: notifyClose on an open document sends one didClose and removes the
\* URI from the open-document table and from the diagnostics cache, leaving
\* the entries of the other URIs as they were; a waitForDiagnostics that
\* returns a fresh hit returns the entry the cache holds at that moment, so
\* none from before the close.
C30_CloseDropsDocumentAndCache ==
    /\ [][\A c \in ClientNames : \A f \in Files :
              (MapHas(openDocuments[c], UriOf(f)) /\ NotifyClose(c, f)) =>
                  /\ sent'[c] = Append(sent[c], DidClose(UriOf(f)))
                  /\ ~MapHas(openDocuments'[c], UriOf(f))
                  /\ ~MapHas(diagnosticsCache'[c], UriOf(f))
                  /\ SameElsewhere(openDocuments[c], openDocuments'[c], UriOf(f))
                  /\ SameElsewhere(diagnosticsCache[c], diagnosticsCache'[c], UriOf(f))]_vars
    /\ [][\A i \in 1..Len(calls') :
              FreshHit(i) =>
                  /\ MapHas(diagnosticsCache[calls'[i].client], UriOf(calls'[i].file))
                  /\ calls'[i].diags =
                        diagnosticsCache[calls'[i].client][UriOf(calls'[i].file)].diagnostics]_vars

\* Diagnostics were published for a.ts and b.ts, both open; a.ts was closed,
\* and the diagnostics call on a.ts that followed found nothing cached and
\* waits, while b.ts is still open and cached.
C30_Witness ==
    /\ Len(calls) = 2
    /\ calls[1].file = "a.ts" /\ calls[1].diags = <<"e1">>
    /\ calls[2].file = "a.ts" /\ calls[2].pc = "waiting" /\ calls[2].cached = NoEntry
    /\ \E k \in 1..Len(sent["typescript"]) :
          /\ sent["typescript"][k] = DidClose(UriOf("a.ts"))
          /\ k < Len(sent["typescript"])
          /\ sent["typescript"][Len(sent["typescript"])].type = "didOpen"
    /\ ~MapHas(diagnosticsCache["typescript"], UriOf("a.ts"))
    /\ MapHas(openDocuments["typescript"], UriOf("b.ts"))
    /\ MapHas(diagnosticsCache["typescript"], UriOf("b.ts"))

\* C31: the diagnostics cache entry of a URI, when present, holds the list of
\* the most recent publishDiagnostics received for the URI; an entry changes
\* only by a publishDiagnostics for its URI and goes only by the close of its
\* document, so waits, timeouts and publishes for other URIs leave it alone.
C31_CacheHoldsLastPublish ==
    /\ [](\A c \in ClientNames : \A uri \in Uris :
             MapHas(diagnosticsCache[c], uri) =>
                 diagnosticsCache[c][uri] = LastPublished(c, uri))
    /\ [][\A c \in ClientNames : \A f \in Files :
              LET uri == UriOf(f) IN
              (\/ MapHas(diagnosticsCache[c], uri) # MapHas(diagnosticsCache'[c], uri)
               \/ /\ MapHas(diagnosticsCache[c], uri)
                  /\ diagnosticsCache[c][uri] # diagnosticsCache'[c][uri]) =>
                  \/ \E d \in DiagLists : PublishDiagnostics(c, uri, d)
                  \/ /\ NotifyClose(c, f)
                     /\ MapHas(openDocuments[c], uri)
                     /\ ~MapHas(diagnosticsCache'[c], uri)]_vars

\* a.ts was published twice with different lists and holds the second; a
\* wait on it timed out since; b.ts holds the entry published for it before.
C31_Witness ==
    /\ MapHas(diagnosticsCache["typescript"], UriOf("a.ts"))
    /\ MapHas(diagnosticsCache["typescript"], UriOf("b.ts"))
    /\ diagnosticsCache["typescript"][UriOf("a.ts")].diagnostics = << >>
    /\ diagnosticsCache["typescript"][UriOf("b.ts")].timestamp = 0
    /\ diagnosticsCache["typescript"][UriOf("a.ts")].timestamp > 0
    /\ \E i \in 1..Len(calls) : calls[i].diags = <<"e1">> /\ calls[i].via = "publish"
    /\ \E i \in 1..Len(calls) : calls[i].via = "timeout"

\* The diagnostics call i returns a list the peer published in this step or
\* before it.
ReturnsPublished(i) ==
    /\ i \in 1..Len(calls')
    /\ calls'[i].tool = "diagnostics"
    /\ calls'[i].pc = "done" /\ calls'[i].result = "ok"
    /\ calls'[i].via \in {"fresh", "publish"}
    /\ i \in 1..Len(calls) => calls[i].pc # "done"

\* C32: a diagnostics call on a file made after a change of the document was
\* sent returns, when the peer publishes before the timeout, a list published
\* after the change: with the peer publishing the diagnostics of the text it
\* holds and no change sent while a call is pending, the list returned is
\* that of the document's text.
C32_DiagnosticsAfterChange ==
    [][\A i \in 1..MaxCalls :
          ReturnsPublished(i) =>
              calls'[i].diags =
                  PeerDiagnostics(openDocuments'[calls'[i].client][UriOf(calls'[i].file)].content)]_vars

\* Document f is open in a Ready client whose cached list for it is not empty.
OpenWithIssues(c, f) ==
    /\ running[c]
    /\ MapHas(openDocuments[c], UriOf(f))
    /\ MapHas(diagnosticsCache[c], UriOf(f))
    /\ diagnosticsCache[c][UriOf(f)].diagnostics # << >>

\* C33: a diagnostics call without a file returns the diagnostics of the
\* currently open files with issues: every diagnostic returned is cached for
\* a document open in a Ready client, and every cached diagnostic of such a
\* document is returned.
C33_AllOpenFilesWithIssues ==
    [][CallDiagnosticsAll =>
          LET returned == Range(calls'[Len(calls')].diags) IN
          /\ \A o \in returned :
                \E c \in ClientNames :
                    /\ OpenWithIssues(c, o.file)
                    /\ o.message \in Range(diagnosticsCache[c][UriOf(o.file)].diagnostics)
          /\ \A c \in ClientNames : \A f \in Files :
                OpenWithIssues(c, f) =>
                    \A d \in Range(diagnosticsCache[c][UriOf(f)].diagnostics) :
                        FormatDiagnostic(d, f) \in returned]_vars

\* The didOpen notifications for uri in a message log from the last didClose
\* for uri on.
OpensSinceClose(log, uri) ==
    LET closes == {k \in 1..Len(log) : log[k].type = "didClose" /\ log[k].uri = uri}
        from == IF closes = {} THEN 1 ELSE Max(closes) + 1
    IN  {k \in from..Len(log) : log[k].type = "didOpen" /\ log[k].uri = uri}

\* C34: under any interleaving of concurrent ensureOpen calls and
\* file-watcher notifyChange calls on one path of one client, the peer
\* receives at most one didOpen for the URI between closes, and the recorded
\* text is never replaced by an older read of the file.
C34_PresenceCoherent ==
    /\ [](\A c \in ClientNames : \A uri \in Uris :
             Cardinality(OpensSinceClose(sent[c], uri)) <= 1)
    /\ [][\A c \in ClientNames : \A uri \in Uris :
              (MapHas(openDocuments[c], uri) /\ MapHas(openDocuments'[c], uri)) =>
                  openDocuments'[c][uri].content >= openDocuments[c][uri].content]_vars

\* C35: in a graceful shutdown the exit notification is sent only after the
\* peer has replied to the shutdown request, and it is written to the peer
\* before the connection is disposed and the subprocess killed.
C35_ExitWrittenBeforeKill ==
    \A c \in ClientNames : \A k \in 1..Len(sent[c]) :
        sent[c][k].type = "exit" =>
            /\ \E j \in 1..(k - 1) : sent[c][j] = ShutdownRequest
            /\ shut[c] = "done"
            /\ sent[c][k] = ExitNotification

\* C36: notifySave and notifyClose on a path that is not open send nothing
\* and leave the open-document table, the versions, the diagnostics cache and
\* the waiters as they are; notifySave on an open document sends the
\* document's current text and changes no state.
C36_SaveAndCloseOfUnopened ==
    [][\A c \in ClientNames : \A f \in Files :
          /\ (~MapHas(openDocuments[c], UriOf(f)) /\ (NotifySave(c, f) \/ NotifyClose(c, f))) =>
                UNCHANGED <<sent, openDocuments, diagnosticsCache, diagnosticsWaiters>>
          /\ (MapHas(openDocuments[c], UriOf(f)) /\ NotifySave(c, f)) =>
                /\ sent'[c] = Append(sent[c], DidSave(UriOf(f), openDocuments[c][UriOf(f)].content))
                /\ UNCHANGED <<openDocuments, diagnosticsCache, diagnosticsWaiters>>]_vars

\* The typescript peer was sent a didChange and then a didSave carrying the
\* changed text for a.ts, while b.ts was never open and nothing was sent
\* for it.
C36_Witness ==
    LET log == sent["typescript"] IN
    /\ Len(log) >= 2
    /\ log[Len(log)].type = "didSave" /\ log[Len(log)].uri = UriOf("a.ts")
    /\ log[Len(log) - 1].type = "didChange" /\ log[Len(log) - 1].uri = UriOf("a.ts")
    /\ log[Len(log)].text = log[Len(log) - 1].text
    /\ log[Len(log)].text = 1
    /\ ~MapHas(openDocuments["typescript"], UriOf("b.ts"))
    /\ \A k \in 1..Len(log) : log[k].uri # UriOf("b.ts")

\* C37: a client that reports running holds a connection that is not
\* disposed and a subprocess, whatever the interleaving of start(),
\* shutdown(), subprocess exit and process error.
C37_RunningHasConnectionAndProcess ==
    \A c \in ClientNames :
        running[c] => connection[c] # "null" /\ process[c] # "null"

\* C38: every position sent to a peer has a line and a character that are
\* not negative, for every tool input validation accepts, those with a line
\* or column of 0 or less included.
C38_WireCoordinatesNotNegative ==
    \A i \in 1..Len(calls) :
        HasPosition(calls[i]) =>
            calls[i].position.line >= 0 /\ calls[i].position.character >= 0

\* The text edits a workspace edit carries, with the URI of their document:
\* those of the TextDocumentEdits of documentChanges, or those of the changes
\* map when there is no documentChanges.
CarriedEdits(edit) ==
    IF "documentChanges" \in DOMAIN edit
    THEN UNION {{[uri |-> edit.documentChanges[k].textDocument.uri,
                  edit |-> edit.documentChanges[k].edits[n]] :
                    n \in 1..Len(edit.documentChanges[k].edits)} :
                k \in {j \in 1..Len(edit.documentChanges) :
                          {"textDocument", "edits"} \subseteq DOMAIN edit.documentChanges[j]}}
    ELSE UNION {{[uri |-> edit.changes[k].uri, edit |-> edit.changes[k].edits[n]] :
                    n \in 1..Len(edit.changes[k].edits)} :
                k \in 1..Len(edit.changes)}

\* C39: the normalization of a workspace edit loses no edit: every text edit
\* of every TextDocumentEdit of documentChanges, or of the changes map when
\* there is no documentChanges, is in the result under its file, also when
\* several members of documentChanges are for the same file.
C39_NoEditLost ==
    \A i \in 1..Len(calls) :
        Renamed(calls[i]) =>
            \A src \in CarriedEdits(calls[i].answer.edit) :
                \E k \in 1..Len(calls[i].diags) :
                    /\ UriOf(calls[i].diags[k].file) = src.uri
                    /\ FormatTextEdit(src.edit) \in Range(calls[i].diags[k].edits)

====
